---- MODULE Spec2Model ----
(***************************************************************************)
(* Verification model of the Tugboat MCP server: the authentication        *)
(* manager (utils/auth.ts), the HTTP permission middleware                  *)
(* (middleware/auth.ts), the tool registrars (tools/*.ts) and the resource  *)
(* registrars (resources/index).                                            *)
(*                                                                          *)
(* Asynchronous code is modelled at the granularity of its await points:    *)
(* the synchronous stretch between two awaits is one action.  The order in  *)
(* which settled promises run their continuations is left open.             *)
(***************************************************************************)
EXTENDS Integers, Naturals, Sequences, FiniteSets, TLC

\* ------------------------------------------------------------------------
\* Bounds
\* ------------------------------------------------------------------------
NumCallers == 3
MaxCalls == 4
MaxNow == 1

Callers == 1..NumCallers

\* ------------------------------------------------------------------------
\* AuthManager (utils/auth.ts)
\* ------------------------------------------------------------------------
VARIABLES token, tokenRefreshPromise, promises, refreshCount, call, nCalls, now

authVars == <<token, tokenRefreshPromise, promises, refreshCount, call, nCalls, now>>

\* The API key held by the API client (TugboatApiClient.getApiKey).
ApiKey == "api-key"

\* AuthToken = { token: string, expires?: number }.  obj is the identity of
\* the JavaScript object; expires = 0 stands for "unset".  obj = 0 is null.
Null == [obj |-> 0, token |-> "", expires |-> 0]

\* The error a failing refresh step raises, and the error authenticate()
\* raises from its catch block.
RefreshError == "refresh error"
AuthenticationFailed == "Authentication failed"

\* A refresh step whose token expires.
M_refreshToken(k) == [obj |-> k, token |-> ApiKey, expires |-> 1]

\* The token refreshToken() builds: the API key, no expiration.  k is the
\* identity of the freshly allocated object.
refreshToken(k) == [obj |-> k, token |-> ApiKey, expires |-> 0]

\* A cache that is never consulted.
M_TokenValid(t, time) == FALSE

\* this.token && (!this.token.expires || this.token.expires > Date.now())
TokenValid(t, time) == t # Null /\ (t.expires = 0 \/ t.expires > time)

\* A caller that is not inside authenticate().
IdleCall == [pc |-> "idle", waitsOn |-> 0, result |-> Null, err |-> "",
             issuedDuring |-> 0, started |-> 0]

NoPromise == [state |-> "none", value |-> Null]

InitAuth ==
    /\ token = Null
    /\ tokenRefreshPromise = 0
    /\ promises = [k \in 1..MaxCalls |-> NoPromise]
    /\ refreshCount = 0
    /\ call = [p \in Callers |-> IdleCall]
    /\ nCalls = 0
    /\ now = 0

\* authenticate() without the check of the in-flight guard.
M_AuthenticateBranch(t, inflight, time) ==
    IF TokenValid(t, time) THEN "cached" ELSE "refresh"

\* The decision authenticate() takes in its synchronous prefix.
AuthenticateBranch(t, inflight, time) ==
    IF TokenValid(t, time) THEN "cached"
    ELSE IF inflight # 0 THEN "join"
    ELSE "refresh"

\* authenticate(), from entry to its first suspension or return.
Authenticate(p) ==
    /\ call[p].pc = "idle"
    /\ nCalls < MaxCalls
    /\ nCalls' = nCalls + 1
    /\ LET br == AuthenticateBranch(token, tokenRefreshPromise, now) IN
       CASE br = "cached" ->
              /\ call' = [call EXCEPT ![p] = [IdleCall EXCEPT !.pc = "resolved",
                                   !.result = token,
                                   !.issuedDuring = tokenRefreshPromise]]
              /\ UNCHANGED <<tokenRefreshPromise, promises, refreshCount>>
         [] br = "join" ->
              /\ call' = [call EXCEPT ![p] = [IdleCall EXCEPT !.pc = "joined",
                                   !.waitsOn = tokenRefreshPromise,
                                   !.issuedDuring = tokenRefreshPromise]]
              /\ UNCHANGED <<tokenRefreshPromise, promises, refreshCount>>
         [] br = "refresh" ->
              /\ refreshCount' = refreshCount + 1
              /\ tokenRefreshPromise' = refreshCount + 1
              /\ promises' = [promises EXCEPT ![refreshCount + 1] =
                                   [state |-> "pending", value |-> Null]]
              /\ call' = [call EXCEPT ![p] = [IdleCall EXCEPT !.pc = "awaiting",
                                   !.waitsOn = refreshCount + 1,
                                   !.issuedDuring = tokenRefreshPromise,
                                   !.started = refreshCount + 1]]
    /\ UNCHANGED <<token, now>>

\* The promise returned by refreshToken() settles: fulfilled with the token
\* wrapping the API key, or rejected when the refresh step throws.
RefreshSettle(k) ==
    /\ promises[k].state = "pending"
    /\ \E ok \in BOOLEAN :
         promises' = [promises EXCEPT ![k] =
             IF ok THEN [state |-> "fulfilled", value |-> refreshToken(k)]
                   ELSE [state |-> "rejected", value |-> Null]]
    /\ UNCHANGED <<token, tokenRefreshPromise, refreshCount, call, nCalls, now>>

\* The guard cleared on the success path only.
M_GuardAfterFinally(g, ok) == IF ok THEN 0 ELSE g

\* The value of the in-flight guard after the finally block, which runs
\* whether the awaited refresh was fulfilled (ok) or rejected.
GuardAfterFinally(g, ok) == 0

\* Continuation of `this.token = await this.tokenRefreshPromise` in the call
\* that started the refresh: the try/finally and the outer catch.
AwaitResume(p) ==
    /\ call[p].pc = "awaiting"
    /\ promises[call[p].waitsOn].state \in {"fulfilled", "rejected"}
    /\ tokenRefreshPromise' = GuardAfterFinally(tokenRefreshPromise,
                               promises[call[p].waitsOn].state = "fulfilled")
    /\ IF promises[call[p].waitsOn].state = "fulfilled"
       THEN /\ token' = promises[call[p].waitsOn].value
            /\ call' = [call EXCEPT ![p].pc = "resolved",
                                    ![p].result = promises[call[p].waitsOn].value]
       ELSE /\ token' = token
            /\ call' = [call EXCEPT ![p].pc = "rejected",
                                    ![p].err = AuthenticationFailed]
    /\ UNCHANGED <<promises, refreshCount, nCalls, now>>

\* The error with which a call that returned the in-flight promise rejects.
\* `return this.tokenRefreshPromise` is not awaited inside the try block, so
\* the rejection bypasses the catch block.
JoinedError == RefreshError

\* A call that returned the in-flight promise settles with that promise.
JoinSettle(p) ==
    /\ call[p].pc = "joined"
    /\ promises[call[p].waitsOn].state \in {"fulfilled", "rejected"}
    /\ IF promises[call[p].waitsOn].state = "fulfilled"
       THEN call' = [call EXCEPT ![p].pc = "resolved",
                                 ![p].result = promises[call[p].waitsOn].value]
       ELSE call' = [call EXCEPT ![p].pc = "rejected", ![p].err = JoinedError]
    /\ UNCHANGED <<token, tokenRefreshPromise, promises, refreshCount, nCalls, now>>

\* The caller takes the settled result; it may call authenticate() again.
CallReturn(p) ==
    /\ call[p].pc \in {"resolved", "rejected"}
    /\ nCalls < MaxCalls
    /\ call' = [call EXCEPT ![p] = IdleCall]
    /\ UNCHANGED <<token, tokenRefreshPromise, promises, refreshCount, nCalls, now>>

\* Date.now() advances.
Tick ==
    /\ now < MaxNow
    /\ now' = now + 1
    /\ UNCHANGED <<token, tokenRefreshPromise, promises, refreshCount, call, nCalls>>

\* ------------------------------------------------------------------------
\* Permission middleware (middleware/auth.ts)
\* ------------------------------------------------------------------------
MaxHeaderLen == 4
MaxRequests == 2

VARIABLES mw, mwCount

mwVars == <<mw, mwCount>>

\* The Authorization header is a string, modelled as a sequence of lexemes:
\* the scheme words, a whitespace character and token characters.  The
\* empty sequence stands for an absent (or empty) header.
Lexemes == {"Bearer", "bearer", "Basic", " ", "k", "x"}

\* All sequences over S of length at most n.
SeqsUpTo(S, n) == UNION {[1..m -> S] : m \in 0..n}

\* Header values as the HTTP parser delivers them: without leading or
\* trailing whitespace.
Headers ==
    {h \in SeqsUpTo(Lexemes, MaxHeaderLen) :
        Len(h) > 0 => (h[1] # " " /\ h[Len(h)] # " ")}

\* Values authManager.authenticate() may resolve to (token.token).
TokenValues == {<<"k">>, <<"x">>, <<"k", "x">>}

Methods == {"GET", "POST", "PUT", "PATCH", "DELETE", "OPTIONS", "delete"}

\* Route parameter `resource`; "" stands for no such parameter.
Resources == {"", "projects"}

\* Length of the run of whitespace of h that starts at position i.
RECURSIVE WsRun(_, _)
WsRun(h, i) == IF i <= Len(h) /\ h[i] = " " THEN 1 + WsRun(h, i + 1) ELSE 0

\* authHeader.match(/^Bearer\s+(.+)$/i): the captured group, or <<>> when the
\* header does not match.  \s+ is greedy and gives one character back when
\* nothing else is left for (.+).
BearerMatch(h) ==
    IF Len(h) >= 1 /\ h[1] \in {"Bearer", "bearer"}
    THEN LET n == WsRun(h, 2) IN
         IF n = 0 THEN <<>>
         ELSE IF Len(h) > 1 + n THEN SubSeq(h, 2 + n, Len(h))
         ELSE IF n >= 2 THEN <<" ">>
         ELSE <<>>
    ELSE <<>>

\* method.toUpperCase()
ToUpperCase(m) == IF m = "delete" THEN "DELETE" ELSE m

\* Every method taken for a read.
M_getActionFromMethod(method) == "read"

\* getActionFromMethod
getActionFromMethod(method) ==
    LET u == ToUpperCase(method) IN
    CASE u = "GET" -> "read"
      [] u \in {"POST", "PUT", "PATCH"} -> "write"
      [] u = "DELETE" -> "delete"
      [] OTHER -> "read"

IdleMw == [pc |-> "idle", header |-> <<>>, resource |-> "", method |-> "GET",
           bearer |-> <<>>, validToken |-> <<>>, status |-> 0, message |-> "",
           responses |-> 0, nextCalls |-> 0,
           authzResource |-> "", authzAction |-> "", authz |-> "none"]

InitMw ==
    /\ mw = IdleMw
    /\ mwCount = 0

\* A response without the `return` after it: the middleware goes on to next().
M_Respond(r, code, msg) ==
    [r EXCEPT !.pc = "done", !.status = code, !.message = msg,
              !.responses = r.responses + 1, !.nextCalls = r.nextCalls + 1]

\* res.status(code).json({error, message}), followed by return or by the end
\* of the catch block.
Respond(r, code, msg) ==
    [r EXCEPT !.pc = "done", !.status = code, !.message = msg,
              !.responses = r.responses + 1]

\* next()
CallNext(r) == [r EXCEPT !.pc = "done", !.nextCalls = r.nextCalls + 1]

\* A request without a usable Authorization header is answered at once.
HeaderVerdict(h) ==
    IF h = <<>> THEN "missing"
    ELSE IF BearerMatch(h) = <<>> THEN "malformed"
    ELSE "bearer"

\* The middleware's synchronous prefix for a request r.
OnRequest(r) ==
    CASE HeaderVerdict(r.header) = "missing" ->
             Respond(r, 401, "No authorization header provided")
      [] HeaderVerdict(r.header) = "malformed" ->
             Respond(r, 401, "Invalid authorization header format")
      [] OTHER ->
             [r EXCEPT !.pc = "authenticating", !.bearer = BearerMatch(r.header)]

\* A request arrives: the middleware from entry to
\* `await authManager.authenticate()`.
MwReceive ==
    /\ mw.pc = "idle"
    /\ mwCount < MaxRequests
    /\ mwCount' = mwCount + 1
    /\ \E h \in Headers, resource \in Resources, method \in Methods :
         mw' = OnRequest([IdleMw EXCEPT !.header = h, !.resource = resource,
                                        !.method = method])

\* The token comparison left out.
M_TokenMismatch(bearer, valid) == FALSE

\* token !== validToken.token
TokenMismatch(bearer, valid) == bearer # valid

\* authenticate() resolved with validToken: the token comparison and, with a
\* resource parameter, the call of isAuthorized.
MwAuthenticated(valid) ==
    /\ mw.pc = "authenticating"
    /\ LET r == [mw EXCEPT !.validToken = valid] IN
       mw' = IF TokenMismatch(mw.bearer, valid)
             THEN Respond(r, 401, "Invalid authentication token")
             ELSE IF mw.resource # ""
             THEN [r EXCEPT !.pc = "authorizing",
                            !.authzResource = mw.resource,
                            !.authzAction = getActionFromMethod(mw.method)]
             ELSE CallNext(r)
    /\ UNCHANGED mwCount

\* authenticate() rejected: the catch block.
MwAuthenticateThrows ==
    /\ mw.pc = "authenticating"
    /\ mw' = Respond(mw, 500, "An error occurred during authentication")
    /\ UNCHANGED mwCount

\* The test of isAuthorized's result inverted.
M_OnAuthorized(r, granted) ==
    IF ~granted
    THEN CallNext([r EXCEPT !.authz = "denied"])
    ELSE Respond([r EXCEPT !.authz = "granted"], 403,
                 "You do not have permission to " \o r.authzAction \o " this resource")

\* What the middleware does with the value isAuthorized resolved to.
OnAuthorized(r, granted) ==
    IF granted
    THEN CallNext([r EXCEPT !.authz = "granted"])
    ELSE Respond([r EXCEPT !.authz = "denied"], 403,
                 "You do not have permission to " \o r.authzAction \o " this resource")

\* isAuthorized(resource, action) resolved.
MwAuthorized(granted) ==
    /\ mw.pc = "authorizing"
    /\ mw' = OnAuthorized(mw, granted)
    /\ UNCHANGED mwCount

\* isAuthorized rejected: the catch block.
MwAuthorizeThrows ==
    /\ mw.pc = "authorizing"
    /\ mw' = Respond([mw EXCEPT !.authz = "threw"], 500,
                     "An error occurred during authentication")
    /\ UNCHANGED mwCount

\* The request is over; the middleware waits for the next one.
MwDone ==
    /\ mw.pc = "done"
    /\ mwCount < MaxRequests
    /\ mw' = IdleMw
    /\ UNCHANGED mwCount

NextMw ==
    \/ MwReceive
    \/ \E valid \in TokenValues : MwAuthenticated(valid)
    \/ MwAuthenticateThrows
    \/ \E granted \in BOOLEAN : MwAuthorized(granted)
    \/ MwAuthorizeThrows
    \/ MwDone

\* ------------------------------------------------------------------------
\* Tool and resource handlers
\* ------------------------------------------------------------------------
\* A handler is an async function registered with server.tool or
\* server.resource.  Its body is a sequence of steps, in source order; each
\* step is either synchronous (a test of the arguments) or an await on the
\* authorization manager or on the API client.  The handlers receive the
\* authorization manager and the API client as arguments (the tests pass
\* mocks), so what an awaited call settles with is an input of the model.
MaxInvocations == 2
MaxItems == 2

\* z.string().min(24, ...).max(24, ...): the length of a Tugboat identifier.
IdLength == 24

\* The lengths of the identifier argument an invocation can carry: none (the
\* argument is not supplied), one short, exact, one long.
IdLengths == {0} \cup ((IdLength - 1)..(IdLength + 1))

VARIABLES inv, invCount

toolVars == <<inv, invCount>>

\* One step of a handler body.
\*   op     "auth"        await authManager.isAuthorized(target, action)
\*          "scopedAuth"  the same, made only when the scoping argument is given
\*          "admin"       await authManager.isAdmin(), denied when false
\*          "adminFirst"  await authManager.isAdmin(), result kept
\*          "authOrAdmin" await isAuthorized, denied when neither it nor isAdmin
\*          "authEach"    await isAuthorized once per fetched item, as a filter
\*          "fields"      if no optional field was supplied, return text
\*          "confirm"     if (!confirm) return text
\*          "filter"      keep the fetched entries that match the query
\*          "api"         await apiClient call (action is the HTTP verb)
\*          "apiEach"     await apiClient call once per fetched item
\*   check  what the code tests on the response: "none"; "array" (throws if
\*          not an array); "arrayText", "truthy", "success", "lookup",
\*          "list", "projects", "logsInfo" (return a text when the test
\*          fails); "logs" (result.logs.map throws when logs is missing);
\*          "created" (result.preview.id is read, which throws when preview
\*          is missing, and the next call is made with that id)
\*   catch  the catch block a throw of this step lands in: "outer" (the
\*          handler's own, if it has one), "inner" (a nested try whose catch
\*          returns an error text), "fallback" (a nested try whose catch goes on
\*          with the next step), "skip" (a per-item try whose catch goes on
\*          with the next item)
\*   then   "next" to go on after the step, "return" to return its result
\*   text   the words of the text the step returns or throws
Step(op, action, target, check, catch, then, text) ==
    [op |-> op, action |-> action, target |-> target, check |-> check,
     catch |-> catch, then |-> then, text |-> text]

\* deleteProject with the confirm check ahead of the authorization check.
M_deleteProject_index ==
    [name |-> "deleteProject", kind |-> "tool", variant |-> "index",
     idSchema |-> "len24", idRequired |-> TRUE, inTry |-> TRUE,
     steps |-> <<
        Step("confirm", "", "", "none", "outer", "next",
             <<"Operation", "cancelled", "Set", "confirm=true", "to", "confirm", "deletion">>),
        Step("auth", "delete", "projects", "none", "outer", "next",
             <<"Error", "You", "do", "not", "have", "permission", "to", "delete", "projects">>),
        Step("api", "DELETE", "/projects/<x>", "none", "outer", "next", <<>>) >>]

\* createPreview, src/tools/index.ts lines 63-152
createPreview_index ==
    [name |-> "createPreview", kind |-> "tool", variant |-> "index",
     idSchema |-> "len24", idRequired |-> TRUE, inTry |-> TRUE,
     steps |-> <<
        Step("auth", "write", "repository/<x>", "none", "outer", "next",
             <<"Error", "You", "do", "not", "have", "permission", "to", "create", "previews", "in", "repository", "<x>">>),
        Step("api", "POST", "/repos/<x>/previews", "none", "outer", "next", <<>>) >>]

\* buildPreview, src/tools/index.ts lines 155-198
buildPreview_index ==
    [name |-> "buildPreview", kind |-> "tool", variant |-> "index",
     idSchema |-> "string", idRequired |-> TRUE, inTry |-> TRUE,
     steps |-> <<
        Step("auth", "write", "preview/<x>", "none", "outer", "next",
             <<"Error", "You", "do", "not", "have", "permission", "to", "build", "preview", "<x>">>),
        Step("api", "POST", "/previews/<x>/build", "none", "outer", "next", <<>>) >>]

\* refreshPreview, src/tools/index.ts lines 201-244
refreshPreview_index ==
    [name |-> "refreshPreview", kind |-> "tool", variant |-> "index",
     idSchema |-> "string", idRequired |-> TRUE, inTry |-> TRUE,
     steps |-> <<
        Step("auth", "write", "preview/<x>", "none", "outer", "next",
             <<"Error", "You", "do", "not", "have", "permission", "to", "refresh", "preview", "<x>">>),
        Step("api", "POST", "/previews/<x>/refresh", "none", "outer", "next", <<>>) >>]

\* deletePreview, src/tools/index.ts lines 247-290
deletePreview_index ==
    [name |-> "deletePreview", kind |-> "tool", variant |-> "index",
     idSchema |-> "string", idRequired |-> TRUE, inTry |-> TRUE,
     steps |-> <<
        Step("auth", "delete", "preview/<x>", "none", "outer", "next",
             <<"Error", "You", "do", "not", "have", "permission", "to", "delete", "preview", "<x>">>),
        Step("api", "DELETE", "/previews/<x>", "none", "outer", "next", <<>>) >>]

\* getPreview, src/tools/index.ts lines 293-357
getPreview_index ==
    [name |-> "getPreview", kind |-> "tool", variant |-> "index",
     idSchema |-> "string", idRequired |-> TRUE, inTry |-> TRUE,
     steps |-> <<
        Step("auth", "read", "preview/<x>", "none", "outer", "next",
             <<"Error", "You", "do", "not", "have", "permission", "to", "access", "preview", "<x>">>),
        Step("api", "GET", "/previews/<x>", "none", "outer", "next", <<>>) >>]

\* updatePreview, src/tools/index.ts lines 360-439
updatePreview_index ==
    [name |-> "updatePreview", kind |-> "tool", variant |-> "index",
     idSchema |-> "string", idRequired |-> TRUE, inTry |-> TRUE,
     steps |-> <<
        Step("auth", "write", "preview/<x>", "none", "outer", "next",
             <<"Error", "You", "do", "not", "have", "permission", "to", "update", "preview", "<x>">>),
        Step("fields", "", "", "none", "outer", "next",
             <<"Error", "No", "update", "parameters", "specified">>),
        Step("api", "PATCH", "/previews/<x>", "none", "outer", "next", <<>>) >>]

\* getPreviewJobs, src/tools/index.ts lines 442-511
getPreviewJobs_index ==
    [name |-> "getPreviewJobs", kind |-> "tool", variant |-> "index",
     idSchema |-> "string", idRequired |-> TRUE, inTry |-> TRUE,
     steps |-> <<
        Step("auth", "read", "preview/<x>", "none", "outer", "next",
             <<"Error", "You", "do", "not", "have", "permission", "to", "access", "jobs", "for", "preview", "<x>">>),
        Step("api", "GET", "/previews/<x>/jobs<x>", "array", "outer", "next", <<>>) >>]

\* getPreviewStatistics, src/tools/index.ts lines 514-596
getPreviewStatistics_index ==
    [name |-> "getPreviewStatistics", kind |-> "tool", variant |-> "index",
     idSchema |-> "string", idRequired |-> TRUE, inTry |-> TRUE,
     steps |-> <<
        Step("auth", "read", "preview/<x>", "none", "outer", "next",
             <<"Error", "You", "do", "not", "have", "permission", "to", "access", "statistics", "for", "preview", "<x>">>),
        Step("api", "GET", "/previews/<x>/statistics/<x><x>", "array", "outer", "next", <<>>) >>]

\* clonePreview, src/tools/index.ts lines 599-660
clonePreview_index ==
    [name |-> "clonePreview", kind |-> "tool", variant |-> "index",
     idSchema |-> "string", idRequired |-> TRUE, inTry |-> TRUE,
     steps |-> <<
        Step("auth", "write", "preview/<x>", "none", "outer", "next",
             <<"Error", "You", "do", "not", "have", "permission", "to", "clone", "preview", "<x>">>),
        Step("api", "POST", "/previews/<x>/clone", "none", "outer", "next", <<>>) >>]

\* startPreview, src/tools/index.ts lines 663-707
startPreview_index ==
    [name |-> "startPreview", kind |-> "tool", variant |-> "index",
     idSchema |-> "string", idRequired |-> TRUE, inTry |-> TRUE,
     steps |-> <<
        Step("auth", "write", "preview/<x>", "none", "outer", "next",
             <<"Error", "You", "do", "not", "have", "permission", "to", "start", "preview", "<x>">>),
        Step("api", "POST", "/previews/<x>/start", "none", "outer", "next", <<>>) >>]

\* stopPreview, src/tools/index.ts lines 710-754
stopPreview_index ==
    [name |-> "stopPreview", kind |-> "tool", variant |-> "index",
     idSchema |-> "string", idRequired |-> TRUE, inTry |-> TRUE,
     steps |-> <<
        Step("auth", "write", "preview/<x>", "none", "outer", "next",
             <<"Error", "You", "do", "not", "have", "permission", "to", "stop", "preview", "<x>">>),
        Step("api", "POST", "/previews/<x>/stop", "none", "outer", "next", <<>>) >>]

\* suspendPreview, src/tools/index.ts lines 757-801
suspendPreview_index ==
    [name |-> "suspendPreview", kind |-> "tool", variant |-> "index",
     idSchema |-> "string", idRequired |-> TRUE, inTry |-> TRUE,
     steps |-> <<
        Step("auth", "write", "preview/<x>", "none", "outer", "next",
             <<"Error", "You", "do", "not", "have", "permission", "to", "suspend", "preview", "<x>">>),
        Step("api", "POST", "/previews/<x>/suspend", "none", "outer", "next", <<>>) >>]

\* searchPreviews, src/tools/index.ts lines 809-983
searchPreviews_index ==
    [name |-> "searchPreviews", kind |-> "tool", variant |-> "index",
     idSchema |-> "none", idRequired |-> FALSE, inTry |-> TRUE,
     steps |-> <<
        Step("auth", "read", "previews", "none", "outer", "next",
             <<"Error", "You", "do", "not", "have", "permission", "to", "search", "previews">>),
        Step("api", "GET", "/previews", "array", "fallback", "return", <<>>),
        Step("api", "GET", "/projects", "array", "outer", "next", <<>>),
        Step("apiEach", "GET", "/repos/<x>/previews", "none", "skip", "next", <<>>) >>]

\* searchProjects, src/tools/index.ts lines 986-1068
searchProjects_index ==
    [name |-> "searchProjects", kind |-> "tool", variant |-> "index",
     idSchema |-> "none", idRequired |-> FALSE, inTry |-> TRUE,
     steps |-> <<
        Step("auth", "read", "projects", "none", "outer", "next",
             <<"Error", "You", "do", "not", "have", "permission", "to", "search", "projects">>),
        Step("api", "GET", "/projects", "array", "outer", "next", <<>>),
        Step("filter", "", "", "none", "outer", "next", <<>>) >>]

\* listProjects, src/tools/index.ts lines 1076-1147
listProjects_index ==
    [name |-> "listProjects", kind |-> "tool", variant |-> "index",
     idSchema |-> "none", idRequired |-> FALSE, inTry |-> TRUE,
     steps |-> <<
        Step("auth", "read", "projects", "none", "outer", "next",
             <<"Error", "You", "do", "not", "have", "permission", "to", "list", "projects">>),
        Step("api", "GET", "/projects", "array", "outer", "next", <<>>) >>]

\* getProject, src/tools/index.ts lines 1150-1218
getProject_index ==
    [name |-> "getProject", kind |-> "tool", variant |-> "index",
     idSchema |-> "len24", idRequired |-> TRUE, inTry |-> TRUE,
     steps |-> <<
        Step("auth", "read", "projects", "none", "outer", "next",
             <<"Error", "You", "do", "not", "have", "permission", "to", "view", "project", "details">>),
        Step("api", "GET", "/projects/<x>", "none", "outer", "next", <<>>) >>]

\* updateProject, src/tools/index.ts lines 1221-1284
updateProject_index ==
    [name |-> "updateProject", kind |-> "tool", variant |-> "index",
     idSchema |-> "len24", idRequired |-> TRUE, inTry |-> TRUE,
     steps |-> <<
        Step("auth", "write", "projects", "none", "outer", "next",
             <<"Error", "You", "do", "not", "have", "permission", "to", "update", "projects">>),
        Step("api", "PATCH", "/projects/<x>", "none", "outer", "next", <<>>) >>]

\* deleteProject, src/tools/index.ts lines 1287-1349
deleteProject_index ==
    [name |-> "deleteProject", kind |-> "tool", variant |-> "index",
     idSchema |-> "len24", idRequired |-> TRUE, inTry |-> TRUE,
     steps |-> <<
        Step("auth", "delete", "projects", "none", "outer", "next",
             <<"Error", "You", "do", "not", "have", "permission", "to", "delete", "projects">>),
        Step("confirm", "", "", "none", "outer", "next",
             <<"Operation", "cancelled", "Set", "confirm=true", "to", "confirm", "deletion">>),
        Step("api", "DELETE", "/projects/<x>", "none", "outer", "next", <<>>) >>]

\* getProjectRepos, src/tools/index.ts lines 1352-1428
getProjectRepos_index ==
    [name |-> "getProjectRepos", kind |-> "tool", variant |-> "index",
     idSchema |-> "len24", idRequired |-> TRUE, inTry |-> TRUE,
     steps |-> <<
        Step("auth", "read", "projects", "none", "outer", "next",
             <<"Error", "You", "do", "not", "have", "permission", "to", "view", "project", "repositories">>),
        Step("api", "GET", "/projects/<x>/repos", "array", "outer", "next", <<>>) >>]

\* getProjectJobs, src/tools/index.ts lines 1431-1518
getProjectJobs_index ==
    [name |-> "getProjectJobs", kind |-> "tool", variant |-> "index",
     idSchema |-> "len24", idRequired |-> TRUE, inTry |-> TRUE,
     steps |-> <<
        Step("auth", "read", "projects", "none", "outer", "next",
             <<"Error", "You", "do", "not", "have", "permission", "to", "view", "project", "jobs">>),
        Step("api", "GET", "/projects/<x>/jobs<x>", "array", "outer", "next", <<>>) >>]

\* getProjectStats, src/tools/index.ts lines 1521-1616
getProjectStats_index ==
    [name |-> "getProjectStats", kind |-> "tool", variant |-> "index",
     idSchema |-> "len24", idRequired |-> TRUE, inTry |-> TRUE,
     steps |-> <<
        Step("auth", "read", "projects", "none", "outer", "next",
             <<"Error", "You", "do", "not", "have", "permission", "to", "view", "project", "statistics">>),
        Step("api", "GET", "/projects/<x>/statistics/<x><x>", "array", "outer", "next", <<>>) >>]

\* createRepository, src/tools/index.ts lines 1624-1727
createRepository_index ==
    [name |-> "createRepository", kind |-> "tool", variant |-> "index",
     idSchema |-> "len24", idRequired |-> TRUE, inTry |-> TRUE,
     steps |-> <<
        Step("auth", "write", "repos", "none", "outer", "next",
             <<"Error", "You", "do", "not", "have", "permission", "to", "create", "repositories">>),
        Step("api", "POST", "/repos", "none", "outer", "next", <<>>) >>]

\* getRepository, src/tools/index.ts lines 1730-1806
getRepository_index ==
    [name |-> "getRepository", kind |-> "tool", variant |-> "index",
     idSchema |-> "len24", idRequired |-> TRUE, inTry |-> TRUE,
     steps |-> <<
        Step("auth", "read", "repos", "none", "outer", "next",
             <<"Error", "You", "do", "not", "have", "permission", "to", "view", "repository", "details">>),
        Step("api", "GET", "/repos/<x>", "none", "outer", "next", <<>>) >>]

\* updateRepository, src/tools/index.ts lines 1809-1890
updateRepository_index ==
    [name |-> "updateRepository", kind |-> "tool", variant |-> "index",
     idSchema |-> "len24", idRequired |-> TRUE, inTry |-> TRUE,
     steps |-> <<
        Step("auth", "write", "repos", "none", "outer", "next",
             <<"Error", "You", "do", "not", "have", "permission", "to", "update", "repositories">>),
        Step("fields", "", "", "none", "outer", "next",
             <<"Error", "No", "fields", "to", "update", "were", "provided">>),
        Step("api", "PATCH", "/repos/<x>", "none", "outer", "next", <<>>) >>]

\* deleteRepository, src/tools/index.ts lines 1893-1955
deleteRepository_index ==
    [name |-> "deleteRepository", kind |-> "tool", variant |-> "index",
     idSchema |-> "len24", idRequired |-> TRUE, inTry |-> TRUE,
     steps |-> <<
        Step("auth", "delete", "repos", "none", "outer", "next",
             <<"Error", "You", "do", "not", "have", "permission", "to", "delete", "repositories">>),
        Step("confirm", "", "", "none", "outer", "next",
             <<"Operation", "cancelled", "Set", "confirm=true", "to", "confirm", "deletion">>),
        Step("api", "DELETE", "/repos/<x>", "none", "outer", "next", <<>>) >>]

\* updateRepositoryAuth, src/tools/index.ts lines 1958-2013
updateRepositoryAuth_index ==
    [name |-> "updateRepositoryAuth", kind |-> "tool", variant |-> "index",
     idSchema |-> "len24", idRequired |-> TRUE, inTry |-> TRUE,
     steps |-> <<
        Step("auth", "write", "repos", "none", "outer", "next",
             <<"Error", "You", "do", "not", "have", "permission", "to", "update", "repository", "authentication">>),
        Step("api", "PATCH", "/repos/<x>/auth", "none", "outer", "next", <<>>) >>]

\* getRepositoryPreviews, src/tools/index.ts lines 2016-2151
getRepositoryPreviews_index ==
    [name |-> "getRepositoryPreviews", kind |-> "tool", variant |-> "index",
     idSchema |-> "len24", idRequired |-> TRUE, inTry |-> TRUE,
     steps |-> <<
        Step("auth", "read", "repos", "none", "outer", "next",
             <<"Error", "You", "do", "not", "have", "permission", "to", "view", "repository", "previews">>),
        Step("api", "GET", "/repos/<x>/previews", "arrayText", "outer", "next", <<>>) >>]

\* getRepositoryBranches, src/tools/index.ts lines 2154-2227
getRepositoryBranches_index ==
    [name |-> "getRepositoryBranches", kind |-> "tool", variant |-> "index",
     idSchema |-> "len24", idRequired |-> TRUE, inTry |-> TRUE,
     steps |-> <<
        Step("auth", "read", "repos", "none", "outer", "next",
             <<"Error", "You", "do", "not", "have", "permission", "to", "view", "repository", "branches">>),
        Step("api", "GET", "/repos/<x>/branches", "array", "outer", "next", <<>>) >>]

\* getRepositoryTags, src/tools/index.ts lines 2230-2303
getRepositoryTags_index ==
    [name |-> "getRepositoryTags", kind |-> "tool", variant |-> "index",
     idSchema |-> "len24", idRequired |-> TRUE, inTry |-> TRUE,
     steps |-> <<
        Step("auth", "read", "repos", "none", "outer", "next",
             <<"Error", "You", "do", "not", "have", "permission", "to", "view", "repository", "tags">>),
        Step("api", "GET", "/repos/<x>/tags", "array", "outer", "next", <<>>) >>]

\* getRepositoryPullRequests, src/tools/index.ts lines 2306-2380
getRepositoryPullRequests_index ==
    [name |-> "getRepositoryPullRequests", kind |-> "tool", variant |-> "index",
     idSchema |-> "len24", idRequired |-> TRUE, inTry |-> TRUE,
     steps |-> <<
        Step("auth", "read", "repos", "none", "outer", "next",
             <<"Error", "You", "do", "not", "have", "permission", "to", "view", "repository", "pull", "requests">>),
        Step("api", "GET", "/repos/<x>/pulls", "array", "outer", "next", <<>>) >>]

\* getRepositoryJobs, src/tools/index.ts lines 2383-2474
getRepositoryJobs_index ==
    [name |-> "getRepositoryJobs", kind |-> "tool", variant |-> "index",
     idSchema |-> "len24", idRequired |-> TRUE, inTry |-> TRUE,
     steps |-> <<
        Step("auth", "read", "repos", "none", "outer", "next",
             <<"Error", "You", "do", "not", "have", "permission", "to", "view", "repository", "jobs">>),
        Step("api", "GET", "/repos/<x>/jobs<x>", "array", "outer", "next", <<>>) >>]

\* getRepositoryRegistries, src/tools/index.ts lines 2477-2553
getRepositoryRegistries_index ==
    [name |-> "getRepositoryRegistries", kind |-> "tool", variant |-> "index",
     idSchema |-> "len24", idRequired |-> TRUE, inTry |-> TRUE,
     steps |-> <<
        Step("auth", "read", "repos", "none", "outer", "next",
             <<"Error", "You", "do", "not", "have", "permission", "to", "view", "repository", "registries">>),
        Step("api", "GET", "/repos/<x>/registries", "array", "outer", "next", <<>>) >>]

\* getRepositoryStats, src/tools/index.ts lines 2556-2650
getRepositoryStats_index ==
    [name |-> "getRepositoryStats", kind |-> "tool", variant |-> "index",
     idSchema |-> "len24", idRequired |-> TRUE, inTry |-> TRUE,
     steps |-> <<
        Step("auth", "read", "repos", "none", "outer", "next",
             <<"Error", "You", "do", "not", "have", "permission", "to", "view", "repository", "statistics">>),
        Step("api", "GET", "/repos/<x>/statistics/<x><x>", "array", "outer", "next", <<>>) >>]

\* createRepositorySSHKey, src/tools/index.ts lines 2653-2714
createRepositorySSHKey_index ==
    [name |-> "createRepositorySSHKey", kind |-> "tool", variant |-> "index",
     idSchema |-> "len24", idRequired |-> TRUE, inTry |-> TRUE,
     steps |-> <<
        Step("auth", "write", "repos", "none", "outer", "next",
             <<"Error", "You", "do", "not", "have", "permission", "to", "generate", "repository", "SSH", "keys">>),
        Step("api", "POST", "/repos/<x>/keygen", "none", "outer", "next", <<>>) >>]

\* createPreview, src/tools/previews.ts lines 51-110
createPreview_previews ==
    [name |-> "createPreview", kind |-> "tool", variant |-> "previews",
     idSchema |-> "string", idRequired |-> TRUE, inTry |-> TRUE,
     steps |-> <<
        Step("auth", "write", "previews", "none", "outer", "next",
             <<"You", "are", "not", "authorized", "to", "create", "previews", "Please", "authenticate", "first">>),
        Step("api", "POST", "createPreview", "created", "outer", "next", <<>>),
        Step("api", "GET", "getPreview", "none", "inner", "next", <<>>) >>]

\* buildPreview, src/tools/previews.ts lines 112-176
buildPreview_previews ==
    [name |-> "buildPreview", kind |-> "tool", variant |-> "previews",
     idSchema |-> "string", idRequired |-> TRUE, inTry |-> TRUE,
     steps |-> <<
        Step("auth", "write", "previews", "none", "outer", "next",
             <<"You", "are", "not", "authorized", "to", "build", "previews", "Please", "authenticate", "first">>),
        Step("api", "POST", "buildPreview", "success", "outer", "next", <<>>),
        Step("api", "GET", "getPreview", "none", "inner", "next", <<>>) >>]

\* refreshPreview, src/tools/previews.ts lines 178-242
refreshPreview_previews ==
    [name |-> "refreshPreview", kind |-> "tool", variant |-> "previews",
     idSchema |-> "string", idRequired |-> TRUE, inTry |-> TRUE,
     steps |-> <<
        Step("auth", "write", "previews", "none", "outer", "next",
             <<"You", "are", "not", "authorized", "to", "refresh", "previews", "Please", "authenticate", "first">>),
        Step("api", "POST", "refreshPreview", "success", "outer", "next", <<>>),
        Step("api", "GET", "getPreview", "none", "inner", "next", <<>>) >>]

\* deletePreview, src/tools/previews.ts lines 244-308
deletePreview_previews ==
    [name |-> "deletePreview", kind |-> "tool", variant |-> "previews",
     idSchema |-> "string", idRequired |-> TRUE, inTry |-> TRUE,
     steps |-> <<
        Step("auth", "write", "previews", "none", "outer", "next",
             <<"You", "are", "not", "authorized", "to", "delete", "previews", "Please", "authenticate", "first">>),
        Step("api", "GET", "getPreview", "none", "inner", "next", <<>>),
        Step("api", "DELETE", "deletePreview", "success", "inner", "next", <<>>) >>]

\* getPreviewLogs, src/tools/previews.ts lines 310-356
getPreviewLogs_previews ==
    [name |-> "getPreviewLogs", kind |-> "tool", variant |-> "previews",
     idSchema |-> "string", idRequired |-> TRUE, inTry |-> TRUE,
     steps |-> <<
        Step("auth", "read", "previews", "none", "outer", "next",
             <<"You", "are", "not", "authorized", "to", "view", "preview", "logs", "Please", "authenticate", "first">>),
        Step("api", "GET", "getPreviewLogs", "logs", "outer", "next", <<>>) >>]

\* createRepository, src/tools/previews.ts lines 392-482
createRepository_repositories ==
    [name |-> "createRepository", kind |-> "tool", variant |-> "repositories",
     idSchema |-> "len24", idRequired |-> TRUE, inTry |-> TRUE,
     steps |-> <<
        Step("auth", "write", "project/<x>", "none", "outer", "next",
             <<"Error", "You", "do", "not", "have", "permission", "to", "create", "repositories", "in", "project", "<x>">>),
        Step("api", "POST", "createRepository", "truthy", "outer", "next", <<>>) >>]

\* updateRepository, src/tools/previews.ts lines 485-606
updateRepository_repositories ==
    [name |-> "updateRepository", kind |-> "tool", variant |-> "repositories",
     idSchema |-> "len24", idRequired |-> TRUE, inTry |-> TRUE,
     steps |-> <<
        Step("fields", "", "", "none", "outer", "next",
             <<"Error", "At", "least", "one", "field", "must", "be", "provided", "for", "an", "update">>),
        Step("api", "GET", "getRepository", "lookup", "outer", "next", <<>>),
        Step("auth", "write", "project/<x>", "none", "outer", "next",
             <<"Error", "You", "do", "not", "have", "permission", "to", "update", "repository", "<x>">>),
        Step("api", "PATCH", "updateRepository", "truthy", "outer", "next", <<>>) >>]

\* deleteRepository, src/tools/previews.ts lines 609-691
deleteRepository_repositories ==
    [name |-> "deleteRepository", kind |-> "tool", variant |-> "repositories",
     idSchema |-> "len24", idRequired |-> TRUE, inTry |-> TRUE,
     steps |-> <<
        Step("api", "GET", "getRepository", "lookup", "outer", "next", <<>>),
        Step("auth", "write", "project/<x>", "none", "outer", "next",
             <<"Error", "You", "do", "not", "have", "permission", "to", "delete", "repository", "<x>">>),
        Step("api", "DELETE", "deleteRepository", "success", "outer", "next", <<>>) >>]

\* getRepository, src/tools/previews.ts lines 694-827
getRepository_repositories ==
    [name |-> "getRepository", kind |-> "tool", variant |-> "repositories",
     idSchema |-> "len24", idRequired |-> TRUE, inTry |-> TRUE,
     steps |-> <<
        Step("api", "GET", "getRepository", "lookup", "outer", "next", <<>>),
        Step("auth", "read", "project/<x>", "none", "outer", "next",
             <<"Error", "You", "do", "not", "have", "permission", "to", "view", "repository", "<x>">>),
        Step("api", "GET", "getRepositoryPreviews", "none", "outer", "next", <<>>) >>]

\* getRepositoryBranches, src/tools/previews.ts lines 830-940
getRepositoryBranches_repositories ==
    [name |-> "getRepositoryBranches", kind |-> "tool", variant |-> "repositories",
     idSchema |-> "len24", idRequired |-> TRUE, inTry |-> TRUE,
     steps |-> <<
        Step("api", "GET", "getRepository", "lookup", "outer", "next", <<>>),
        Step("auth", "read", "project/<x>", "none", "outer", "next",
             <<"Error", "You", "do", "not", "have", "permission", "to", "view", "branches", "for", "repository", "<x>">>),
        Step("api", "GET", "getRepositoryBranches", "truthy", "outer", "next", <<>>) >>]

\* getRepositoryPullRequests, src/tools/previews.ts lines 943-1067
getRepositoryPullRequests_repositories ==
    [name |-> "getRepositoryPullRequests", kind |-> "tool", variant |-> "repositories",
     idSchema |-> "len24", idRequired |-> TRUE, inTry |-> TRUE,
     steps |-> <<
        Step("api", "GET", "getRepository", "lookup", "outer", "next", <<>>),
        Step("auth", "read", "project/<x>", "none", "outer", "next",
             <<"Error", "You", "do", "not", "have", "permission", "to", "view", "pull", "requests", "for", "repository", "<x>">>),
        Step("api", "GET", "getRepositoryPullRequests", "truthy", "outer", "next", <<>>) >>]

\* createProject, unnamed/part_006 lines 35-101
createProject_projects ==
    [name |-> "createProject", kind |-> "tool", variant |-> "projects",
     idSchema |-> "none", idRequired |-> FALSE, inTry |-> TRUE,
     steps |-> <<
        Step("admin", "admin", "isAdmin", "none", "outer", "next",
             <<"Error", "You", "do", "not", "have", "permission", "to", "create", "projects", "Admin", "access", "is", "required">>),
        Step("api", "POST", "createProject", "truthy", "outer", "next", <<>>) >>]

\* updateProject, unnamed/part_006 lines 104-188
updateProject_projects ==
    [name |-> "updateProject", kind |-> "tool", variant |-> "projects",
     idSchema |-> "len24", idRequired |-> TRUE, inTry |-> TRUE,
     steps |-> <<
        Step("fields", "", "", "none", "outer", "next",
             <<"Error", "At", "least", "one", "of", "name", "or", "description", "must", "be", "provided", "for", "an", "update">>),
        Step("auth", "write", "project/<x>", "none", "outer", "next",
             <<"Error", "You", "do", "not", "have", "permission", "to", "update", "project", "<x>">>),
        Step("api", "PATCH", "updateProject", "truthy", "outer", "next", <<>>) >>]

\* deleteProject, unnamed/part_006 lines 191-250
deleteProject_projects ==
    [name |-> "deleteProject", kind |-> "tool", variant |-> "projects",
     idSchema |-> "len24", idRequired |-> TRUE, inTry |-> TRUE,
     steps |-> <<
        Step("adminFirst", "admin", "isAdmin", "none", "outer", "next",
             <<"Error", "You", "do", "not", "have", "permission", "to", "delete", "project", "<x>">>),
        Step("authOrAdmin", "owner", "project/<x>", "none", "outer", "next",
             <<"Error", "You", "do", "not", "have", "permission", "to", "delete", "project", "<x>">>),
        Step("api", "DELETE", "deleteProject", "success", "outer", "next", <<>>) >>]

\* getProject, unnamed/part_006 lines 253-348
getProject_projects ==
    [name |-> "getProject", kind |-> "tool", variant |-> "projects",
     idSchema |-> "len24", idRequired |-> TRUE, inTry |-> TRUE,
     steps |-> <<
        Step("auth", "read", "project/<x>", "none", "outer", "next",
             <<"Error", "You", "do", "not", "have", "permission", "to", "view", "project", "<x>">>),
        Step("api", "GET", "getProject", "truthy", "outer", "next", <<>>),
        Step("api", "GET", "getProjectRepositories", "none", "outer", "next", <<>>) >>]

\* listProjects, unnamed/part_006 lines 351-441
listProjects_projects ==
    [name |-> "listProjects", kind |-> "tool", variant |-> "projects",
     idSchema |-> "none", idRequired |-> FALSE, inTry |-> TRUE,
     steps |-> <<
        Step("api", "GET", "listProjects", "truthy", "outer", "next", <<>>) >>]

\* searchPreviews, unnamed/part_006 lines 477-606
searchPreviews_search ==
    [name |-> "searchPreviews", kind |-> "tool", variant |-> "search",
     idSchema |-> "len24", idRequired |-> FALSE, inTry |-> TRUE,
     steps |-> <<
        Step("scopedAuth", "read", "project/<x>", "none", "outer", "next",
             <<"Error", "You", "do", "not", "have", "permission", "to", "search", "previews", "in", "project", "<x>">>),
        Step("api", "GET", "searchPreviews", "truthy", "outer", "next", <<>>) >>]

\* searchProjects, unnamed/part_006 lines 609-723
searchProjects_search ==
    [name |-> "searchProjects", kind |-> "tool", variant |-> "search",
     idSchema |-> "none", idRequired |-> FALSE, inTry |-> TRUE,
     steps |-> <<
        Step("api", "GET", "searchProjects", "list", "outer", "next", <<>>),
        Step("authEach", "read", "project/<x>", "none", "outer", "next",
             <<"No", "projects", "found", "matching", "<x>", "that", "you", "have", "permission", "to", "view">>) >>]

\* searchRepositories, unnamed/part_006 lines 726-877
searchRepositories_search ==
    [name |-> "searchRepositories", kind |-> "tool", variant |-> "search",
     idSchema |-> "len24", idRequired |-> FALSE, inTry |-> TRUE,
     steps |-> <<
        Step("scopedAuth", "read", "project/<x>", "none", "outer", "next",
             <<"Error", "You", "do", "not", "have", "permission", "to", "search", "repositories", "in", "project", "<x>">>),
        Step("api", "GET", "searchRepositories", "list", "outer", "next", <<>>),
        Step("authEach", "read", "project/<x>", "projectId", "outer", "next",
             <<"No", "repositories", "found", "matching", "<x>", "that", "you", "have", "permission", "to", "view">>) >>]

\* createPreview, unnamed/part_007 lines 35-116
createPreview_part007 ==
    [name |-> "createPreview", kind |-> "tool", variant |-> "part007",
     idSchema |-> "len24", idRequired |-> TRUE, inTry |-> TRUE,
     steps |-> <<
        Step("auth", "write", "repository/<x>", "none", "outer", "next",
             <<"Error", "You", "do", "not", "have", "permission", "to", "create", "previews", "in", "repository", "<x>">>),
        Step("api", "POST", "createPreview", "truthy", "outer", "next", <<>>) >>]

\* buildPreview, unnamed/part_007 lines 119-209
buildPreview_part007 ==
    [name |-> "buildPreview", kind |-> "tool", variant |-> "part007",
     idSchema |-> "len24", idRequired |-> TRUE, inTry |-> TRUE,
     steps |-> <<
        Step("api", "GET", "getPreview", "lookup", "outer", "next", <<>>),
        Step("auth", "write", "repository/<x>", "none", "outer", "next",
             <<"Error", "You", "do", "not", "have", "permission", "to", "build", "preview", "<x>">>),
        Step("api", "POST", "buildPreview", "truthy", "outer", "next", <<>>) >>]

\* refreshPreview, unnamed/part_007 lines 212-302
refreshPreview_part007 ==
    [name |-> "refreshPreview", kind |-> "tool", variant |-> "part007",
     idSchema |-> "len24", idRequired |-> TRUE, inTry |-> TRUE,
     steps |-> <<
        Step("api", "GET", "getPreview", "lookup", "outer", "next", <<>>),
        Step("auth", "write", "repository/<x>", "none", "outer", "next",
             <<"Error", "You", "do", "not", "have", "permission", "to", "refresh", "preview", "<x>">>),
        Step("api", "POST", "refreshPreview", "truthy", "outer", "next", <<>>) >>]

\* deletePreview, unnamed/part_007 lines 305-387
deletePreview_part007 ==
    [name |-> "deletePreview", kind |-> "tool", variant |-> "part007",
     idSchema |-> "len24", idRequired |-> TRUE, inTry |-> TRUE,
     steps |-> <<
        Step("api", "GET", "getPreview", "lookup", "outer", "next", <<>>),
        Step("auth", "write", "repository/<x>", "none", "outer", "next",
             <<"Error", "You", "do", "not", "have", "permission", "to", "delete", "preview", "<x>">>),
        Step("api", "DELETE", "deletePreview", "success", "outer", "next", <<>>) >>]

\* getPreviewLogs, unnamed/part_007 lines 390-498
getPreviewLogs_part007 ==
    [name |-> "getPreviewLogs", kind |-> "tool", variant |-> "part007",
     idSchema |-> "len24", idRequired |-> TRUE, inTry |-> TRUE,
     steps |-> <<
        Step("api", "GET", "getPreview", "lookup", "outer", "next", <<>>),
        Step("auth", "read", "repository/<x>", "none", "outer", "next",
             <<"Error", "You", "do", "not", "have", "permission", "to", "view", "logs", "for", "preview", "<x>">>),
        Step("api", "GET", "getPreviewLogs", "logsInfo", "outer", "next", <<>>) >>]

\* projects, src/index.js lines 100-126
projects_resource ==
    [name |-> "projects", kind |-> "resource", variant |-> "resource",
     idSchema |-> "none", idRequired |-> FALSE, inTry |-> FALSE,
     steps |-> <<
        Step("auth", "read", "projects", "none", "outer", "next",
             <<"You", "do", "not", "have", "permission", "to", "access", "projects">>),
        Step("api", "GET", "/projects", "none", "outer", "next", <<>>) >>]

\* project, src/index.js lines 129-155
project_resource ==
    [name |-> "project", kind |-> "resource", variant |-> "resource",
     idSchema |-> "none", idRequired |-> FALSE, inTry |-> FALSE,
     steps |-> <<
        Step("auth", "read", "project/<x>", "none", "outer", "next",
             <<"You", "do", "not", "have", "permission", "to", "access", "project", "<x>">>),
        Step("api", "GET", "/projects/<x>", "none", "outer", "next", <<>>) >>]

\* previews, src/index.js lines 163-270
previews_resource ==
    [name |-> "previews", kind |-> "resource", variant |-> "resource",
     idSchema |-> "none", idRequired |-> FALSE, inTry |-> TRUE,
     steps |-> <<
        Step("auth", "read", "previews", "none", "outer", "next",
             <<"You", "do", "not", "have", "permission", "to", "access", "previews">>),
        Step("api", "GET", "/previews", "none", "fallback", "return", <<>>),
        Step("api", "GET", "/projects", "projects", "outer", "next", <<>>),
        Step("apiEach", "GET", "/repos/<x>/previews", "none", "skip", "next", <<>>) >>]

\* preview, src/index.js lines 273-316
preview_resource ==
    [name |-> "preview", kind |-> "resource", variant |-> "resource",
     idSchema |-> "none", idRequired |-> FALSE, inTry |-> TRUE,
     steps |-> <<
        Step("auth", "read", "preview/<x>", "none", "outer", "next",
             <<"You", "do", "not", "have", "permission", "to", "access", "preview", "<x>">>),
        Step("api", "GET", "/previews/<x>", "none", "outer", "next", <<>>) >>]

\* previewLogs, src/index.js lines 319-362
previewLogs_resource ==
    [name |-> "previewLogs", kind |-> "resource", variant |-> "resource",
     idSchema |-> "none", idRequired |-> FALSE, inTry |-> TRUE,
     steps |-> <<
        Step("auth", "read", "preview/<x>/logs", "none", "outer", "next",
             <<"You", "do", "not", "have", "permission", "to", "access", "logs", "for", "preview", "<x>">>),
        Step("api", "GET", "/previews/<x>/logs", "none", "outer", "next", <<>>) >>]

\* repositories, src/index.js lines 370-413
repositories_resource ==
    [name |-> "repositories", kind |-> "resource", variant |-> "resource",
     idSchema |-> "none", idRequired |-> FALSE, inTry |-> TRUE,
     steps |-> <<
        Step("auth", "read", "repositories", "none", "outer", "next",
             <<"You", "do", "not", "have", "permission", "to", "access", "repositories">>),
        Step("api", "GET", "/repos", "none", "outer", "next", <<>>) >>]

\* repository, src/index.js lines 416-459
repository_resource ==
    [name |-> "repository", kind |-> "resource", variant |-> "resource",
     idSchema |-> "none", idRequired |-> FALSE, inTry |-> TRUE,
     steps |-> <<
        Step("auth", "read", "repository/<x>", "none", "outer", "next",
             <<"You", "do", "not", "have", "permission", "to", "access", "repository", "<x>">>),
        Step("api", "GET", "/repos/<x>", "none", "outer", "next", <<>>) >>]

\* Every tool handler registered with server.tool.
ToolHandlers ==
    {createPreview_index, buildPreview_index, refreshPreview_index,
     deletePreview_index, getPreview_index, updatePreview_index,
     getPreviewJobs_index, getPreviewStatistics_index, clonePreview_index,
     startPreview_index, stopPreview_index, suspendPreview_index,
     searchPreviews_index, searchProjects_index, listProjects_index,
     getProject_index, updateProject_index, deleteProject_index,
     getProjectRepos_index, getProjectJobs_index, getProjectStats_index,
     createRepository_index, getRepository_index, updateRepository_index,
     deleteRepository_index, updateRepositoryAuth_index,
     getRepositoryPreviews_index, getRepositoryBranches_index,
     getRepositoryTags_index, getRepositoryPullRequests_index,
     getRepositoryJobs_index, getRepositoryRegistries_index,
     getRepositoryStats_index, createRepositorySSHKey_index,
     createPreview_previews, buildPreview_previews, refreshPreview_previews,
     deletePreview_previews, getPreviewLogs_previews,
     createRepository_repositories, updateRepository_repositories,
     deleteRepository_repositories, getRepository_repositories,
     getRepositoryBranches_repositories,
     getRepositoryPullRequests_repositories, createProject_projects,
     updateProject_projects, deleteProject_projects, getProject_projects,
     listProjects_projects, searchPreviews_search, searchProjects_search,
     searchRepositories_search, createPreview_part007, buildPreview_part007,
     refreshPreview_part007, deletePreview_part007, getPreviewLogs_part007}

\* Every resource handler registered with server.resource.
ResourceHandlers ==
    {projects_resource, project_resource, previews_resource,
     preview_resource, previewLogs_resource, repositories_resource,
     repository_resource}

Handlers == ToolHandlers \cup ResourceHandlers

NoHandler ==
    [name |-> "", kind |-> "", variant |-> "", idSchema |-> "none",
     idRequired |-> FALSE, inTry |-> FALSE, steps |-> <<>>]

\* The message of an error thrown by a collaborator; its words are not tracked.
ThrownMessage == <<"<message>">>

\* An invocation: the arguments that steer the handler (confirm; whether any
\* optional field is supplied; whether the scoping argument is supplied; the
\* length of the identifier argument, 0 when none is supplied), the
\* step it awaits, the items of a per-item loop (fetched, still to do, kept,
\* skipped), what the authorization manager answered so far, where the
\* last error was thrown and which catch block took it, the API-client calls
\* made so far and how many of them have settled, for a loop that filters the fetched entries by authorization
\* the positions of the entries without a project id, of those whose project
\* passed isAuthorized, of those whose project was refused and of those
\* pushed to the result, the id the create call returned and the id passed to
\* the fetch that follows it, whether a response failed Array.isArray, and the way its promise settled: the kind of result, the
\* number of text blocks in its content list (counted where the code builds
\* the list from the response, one otherwise) and the words of the first.
IdleInv ==
    [phase |-> "idle", handler |-> NoHandler, pc |-> 0,
     confirm |-> FALSE, fields |-> FALSE, scoped |-> FALSE, idLen |-> 0,
     isAdmin |-> FALSE, granted |-> FALSE, denied |-> FALSE,
     threw |-> "", caughtBy |-> "",
     items |-> 0, total |-> 0, kept |-> 0, skipped |-> 0,
     orphans |-> {}, passed |-> {}, refused |-> {}, shown |-> {},
     created |-> "", fetched |-> "", settled |-> 0, malformed |-> FALSE,
     calls |-> <<>>, kind |-> "", blocks |-> 0, text |-> <<>>]

InitTool == inv = IdleInv /\ invCount = 0

\* return { content: [{ type: "text", text }] }  (contents for a resource)
Resolve(i, kind, text) ==
    [i EXCEPT !.phase = "resolved", !.kind = kind, !.blocks = 1, !.text = text]

\* The error leaves the handler: its promise rejects.
Reject(i, text) ==
    [i EXCEPT !.phase = "rejected", !.kind = "thrown", !.text = text]

\* A handler without a catch block of its own lets every error through.
M_OuterCatch(i, text) == Reject(i, text)

\* catch (error) { return { content: [{ type: "text", text: `Error ...: ${error.message}` }] } }
\* when the handler body is wrapped in try; otherwise the error propagates.
OuterCatch(i, text) ==
    IF i.handler.inTry THEN Resolve(i, "error", <<"Error">> \o text)
    ELSE Reject(i, text)

\* A gate that lets every invocation through.
M_ConfirmGate(confirm) == TRUE

\* if (!confirm) return the cancellation text
ConfirmGate(confirm) == confirm

\* The content getPreviewLogs builds from a response with n log entries.
\* tools/previews.ts: one block per entry, or the single "No logs" block.
\* The variant of part_007: three heading blocks followed by the entries.
PreviewLogsContent(i, check, n) ==
    LET j == [i EXCEPT !.phase = "resolved", !.kind = "logs", !.total = n]
    IN IF check = "logs"
       THEN IF n > 0 THEN [j EXCEPT !.blocks = n, !.text = <<"<log>">>]
            ELSE [j EXCEPT !.blocks = 1,
                           !.text = <<"No", "logs", "available", "for", "this", "preview">>]
       ELSE [j EXCEPT !.blocks = 3 + n,
                      !.text = <<"Logs", "for", "preview", "<x>", "(ID", "<x>)">>]

\* The number of items a response can carry into a per-item loop.
ItemCounts(s) == IF s.check = "list" THEN 1..MaxItems ELSE 0..MaxItems

\* The entries of a response of n that carry no project id, where the loop
\* tests for one: if (repo.project?.id).
Orphans(s, n) == IF s.check = "projectId" THEN SUBSET (1..n) ELSE {{}}

\* The fetch made with the repository id the tool was called with.
M_FetchId(i) == "repo"

\* const previewId = result.preview.id; ... apiClient.getPreview(previewId)
FetchId(i) == i.created

\* A loop that sends the requests for all remaining items at once.
M_EachBatch(items) == items

\* for (const project of projects) { ... await apiClient.get(...) ... }: the
\* number of requests a turn of the loop sends before it waits.
EachBatch(items) == 1

IsEach(i, k) ==
    k <= Len(i.handler.steps) /\ i.handler.steps[k].op \in {"apiEach", "authEach"}

\* Run the handler from step k up to its next await or to its return.
RECURSIVE RunFrom(_, _)
RunFrom(i, k) ==
    IF k > Len(i.handler.steps) THEN Resolve(i, "success", <<>>)
    ELSE LET s == i.handler.steps[k]
             apiCall == [verb |-> s.action, target |-> s.target]
         IN CASE s.op = "fields" ->
                   IF i.fields THEN RunFrom(i, k + 1)
                   ELSE Resolve(i, "nofields", s.text)
              [] s.op = "confirm" ->
                   IF ConfirmGate(i.confirm) THEN RunFrom(i, k + 1)
                   ELSE Resolve(i, "cancelled", s.text)
              [] s.op = "scopedAuth" /\ ~i.scoped -> RunFrom(i, k + 1)
              [] s.op = "filter" -> RunFrom(i, k + 1)
              [] s.op = "api" ->
                   [i EXCEPT !.phase = "await", !.pc = k, !.calls = Append(@, apiCall),
                             !.fetched = IF k > 1 /\ i.handler.steps[k - 1].check = "created"
                                         THEN FetchId(i) ELSE @]
              [] s.op = "apiEach" ->
                   IF i.items = 0 THEN RunFrom(i, k + 1)
                   ELSE [i EXCEPT !.phase = "await", !.pc = k,
                                  !.calls = @ \o [n \in 1..EachBatch(i.items) |-> apiCall]]
              [] s.op = "authEach" ->
                   IF i.items > 0 /\ (i.total - i.items + 1) \in i.orphans
                   THEN RunFrom([i EXCEPT !.items = @ - 1], k)
                   ELSE IF i.items > 0 THEN [i EXCEPT !.phase = "await", !.pc = k]
                   ELSE IF i.kept = 0 THEN Resolve(i, "filtered", s.text)
                   ELSE RunFrom(i, k + 1)
              [] OTHER -> [i EXCEPT !.phase = "await", !.pc = k]

\* A per-project catch that gives up on the remaining projects.
M_SkipCatch(i) == [i EXCEPT !.items = 0, !.skipped = @ + 1]

\* catch (projectError) { /* continue to the next project */ }
SkipCatch(i) == [i EXCEPT !.items = @ - 1, !.skipped = @ + 1]

\* if (isAuthorized) { authorizedProjects.push(project); }
KeepEntry(isAuthorized) == isAuthorized

\* An error thrown at step k lands in the catch block that encloses the step.
Throw(i, k, source, text) ==
    LET s == i.handler.steps[k]
        j == [i EXCEPT !.threw = source, !.caughtBy = s.catch]
    IN CASE s.catch = "fallback" -> RunFrom(j, k + 1)
         [] s.catch = "skip" -> RunFrom(SkipCatch(j), k)
         [] s.catch = "inner" -> Resolve(j, "error", <<"Error">> \o text)
         [] OTHER -> OuterCatch(j, text)

\* if (!isAuthorized) ...: a tool returns the permission text, a resource
\* throws new Error(text).
Deny(i, k) ==
    LET s == i.handler.steps[k]
    IN IF i.handler.kind = "tool" THEN Resolve(i, "denied", s.text)
       ELSE Throw(i, k, "denial", s.text)

\* The schema registered with the tool accepts the identifier argument:
\* z.string() takes any string, z.string().min(24).max(24) only one of 24
\* characters; an optional argument may be left out.
SchemaAccepts(h, idLen) ==
    (h.idSchema = "len24" /\ idLen # 0) => idLen = IdLength

\* The arguments a call of the tool can carry: an identifier where the schema
\* declares one (left out only where it is optional; the optional identifier
\* is the scoping argument).
Arguments(h) ==
    {a \in [confirm : BOOLEAN, fields : BOOLEAN, scoped : BOOLEAN, idLen : IdLengths] :
        /\ h.idSchema = "none" => a.idLen = 0
        /\ h.idRequired => a.idLen # 0
        /\ (h.idSchema # "none" /\ ~h.idRequired) => a.scoped = (a.idLen # 0)}

\* The protocol layer validates the arguments against the schema registered
\* with the tool; it calls the handler only when they pass, and the handler
\* runs to its first await.
Invoke ==
    /\ inv.phase = "idle"
    /\ invCount < MaxInvocations
    /\ \E h \in Handlers :
          \E a \in Arguments(h) :
             LET i == [IdleInv EXCEPT !.handler = h, !.confirm = a.confirm,
                                      !.fields = a.fields, !.scoped = a.scoped,
                                      !.idLen = a.idLen]
             IN inv' = IF SchemaAccepts(h, a.idLen) THEN RunFrom(i, 1)
                       ELSE [i EXCEPT !.phase = "invalid"]
    /\ invCount' = invCount + 1

AuthOps == {"auth", "scopedAuth", "admin", "adminFirst", "authOrAdmin", "authEach"}

\* The awaited isAuthorized / isAdmin call settles and the handler goes on.
AuthSettle(outcome) ==
    /\ inv.phase = "await"
    /\ inv.handler.steps[inv.pc].op \in AuthOps
    /\ LET k == inv.pc
           op == inv.handler.steps[k].op
           yes == [inv EXCEPT !.granted = (op # "adminFirst" /\ op # "admin") \/ @]
           no == [inv EXCEPT !.denied = (op # "adminFirst" /\ op # "admin") \/ @]
       IN inv' =
            CASE outcome = "throw" -> Throw(inv, k, "auth", ThrownMessage)
              [] op = "adminFirst" ->
                   RunFrom([inv EXCEPT !.isAdmin = (outcome = "grant")], k + 1)
              [] op = "authEach" ->
                   LET c == inv.total - inv.items + 1
                       j == IF outcome = "grant"
                            THEN [yes EXCEPT !.passed = @ \cup {c}]
                            ELSE [no EXCEPT !.refused = @ \cup {c}]
                   IN IF KeepEntry(outcome = "grant")
                      THEN RunFrom([j EXCEPT !.items = @ - 1, !.kept = @ + 1,
                                             !.shown = @ \cup {c}], k)
                      ELSE RunFrom([j EXCEPT !.items = @ - 1], k)
              [] op = "authOrAdmin" ->
                   IF outcome = "grant" THEN RunFrom(yes, k + 1)
                   ELSE IF inv.isAdmin THEN RunFrom(no, k + 1)
                   ELSE Deny(no, k)
              [] OTHER ->
                   IF outcome = "grant" THEN RunFrom(yes, k + 1) ELSE Deny(no, k)
    /\ UNCHANGED invCount

\* The awaited API-client call settles: with a response that passes the
\* step's test ("ok"), with one that fails it ("bad"), or by throwing.
ApiSettle(outcome) ==
    /\ inv.phase = "await"
    /\ inv.handler.steps[inv.pc].op \in {"api", "apiEach"}
    /\ outcome = "bad" => inv.handler.steps[inv.pc].check # "none"
    /\ LET k == inv.pc
           s == inv.handler.steps[k]
           r == [inv EXCEPT !.settled = @ + 1]
       IN CASE outcome = "throw" ->
                 inv' = Throw(r, k, "api", ThrownMessage)
            [] outcome = "bad" /\ s.check = "array" ->
                 inv' = Throw([r EXCEPT !.malformed = TRUE], k, "check",
                              <<"Unexpected", "response", "format">>)
            [] outcome = "bad" /\ s.check = "arrayText" ->
                 inv' = Resolve([r EXCEPT !.malformed = TRUE], "failed",
                                <<"Error", "Received", "unexpected", "response", "format">>)
            [] outcome = "bad" /\ s.check \in {"logs", "created"} ->
                 inv' = Throw(r, k, "check", <<"Cannot", "read", "properties">>)
            [] outcome = "bad" ->
                 inv' = Resolve(r, "failed", ThrownMessage)
            [] s.op = "apiEach" ->
                 inv' = RunFrom([r EXCEPT !.items = @ - 1, !.kept = @ + 1], k)
            [] s.then = "return" ->
                 inv' = Resolve(r, "success", <<>>)
            [] s.check = "created" ->
                 \E id \in {"p1", "p2"} :
                    inv' = RunFrom([r EXCEPT !.created = id], k + 1)
            [] s.check \in {"logs", "logsInfo"} ->
                 \E n \in 0..MaxItems : inv' = PreviewLogsContent(r, s.check, n)
            [] IsEach(r, k + 1) ->
                 \E n \in ItemCounts(s) :
                    \E orphans \in Orphans(inv.handler.steps[k + 1], n) :
                       inv' = RunFrom([r EXCEPT !.items = n, !.total = n, !.kept = 0,
                                                  !.orphans = orphans], k + 1)
            [] k < Len(inv.handler.steps) /\ inv.handler.steps[k + 1].op = "filter" ->
                 \E n \in 0..MaxItems :
                    \E hits \in SUBSET (1..n) :
                       inv' = RunFrom([r EXCEPT !.total = n, !.shown = hits,
                                                  !.kept = Cardinality(hits)], k + 1)
            [] OTHER ->
                 inv' = RunFrom(r, k + 1)
    /\ UNCHANGED invCount

\* The protocol layer takes the settled promise.
Settled ==
    /\ inv.phase \in {"resolved", "rejected", "invalid"}
    /\ inv' = IdleInv
    /\ UNCHANGED invCount

NextTool ==
    \/ Invoke
    \/ \E outcome \in {"grant", "deny", "throw"} : AuthSettle(outcome)
    \/ \E outcome \in {"ok", "bad", "throw"} : ApiSettle(outcome)
    \/ Settled

\* ------------------------------------------------------------------------
\* TugboatApiClient
\* ------------------------------------------------------------------------
\* The client's get, post, patch and delete send one request through the
\* HTTP transport (axios) and either return the response data or throw the
\* error handleApiError builds.  A message is the sequence of the pieces its
\* template literal joins; ToString is the conversion of the status number.
MaxApiCalls == 2
MaxBodyLen == 3

VARIABLES api, apiCount

apiVars == <<api, apiCount>>

Verbs == {"GET", "POST", "PATCH", "DELETE"}

Endpoints == {"/previews/nonexistent", "/projects"}

\* String bodies, as the characters of the text.
StringBodies == SeqsUpTo({"[", "]", "x"}, MaxBodyLen)

\* response.data as the transport hands it over: an object (or array) it
\* has already decoded, or a string.
Bodies ==
    {[type |-> "object", text |-> <<>>]}
        \cup {[type |-> "string", text |-> t] : t \in StringBodies}

\* JSON.parse on the texts of the model: a text is JSON when it is a nest of
\* arrays, and parses to the nesting depth; anything else is a SyntaxError.
RECURSIVE JsonDepth(_)
JsonDepth(t) ==
    IF Len(t) < 2 \/ t[1] # "[" \/ t[Len(t)] # "]" THEN 0
    ELSE IF Len(t) = 2 THEN 1
    ELSE LET inner == JsonDepth(SubSeq(t, 2, Len(t) - 1))
         IN IF inner = 0 THEN 0 ELSE inner + 1

JsonParse(t) == [type |-> "object", text |-> <<"depth", ToString(JsonDepth(t))>>]

SyntaxErrorMessage == "Unexpected token"

\* What the transport settles with: a 2xx response; an error carrying the
\* response of a non-2xx status (error.response, with or without a message in
\* its data, with or without error.config.url); an error with a request but
\* no response; an error raised before the request was made.
TransportOutcome(kind, status, body, message, url) ==
    [kind |-> kind, status |-> status, body |-> body, message |-> message, url |-> url]

NoBody == [type |-> "object", text |-> <<>>]

TransportOutcomes(endpoint) ==
    {TransportOutcome("response", 200, b, <<>>, endpoint) : b \in Bodies}
        \cup {TransportOutcome("status", s, NoBody, m, u) :
                 s \in {400, 401, 403, 404, 500},
                 m \in {<<>>, <<"Bad things">>}, u \in {"", endpoint}}
        \cup {TransportOutcome("noresponse", 0, NoBody, <<"Network Error">>, endpoint),
              TransportOutcome("setup", 0, NoBody, <<"Invalid URL">>, "")}

\* The handler of the mutant treats a 404 like any other status.
M_handleApiError(error) ==
    CASE error.kind = "status" /\ error.status = 401 ->
           <<"Tugboat API Error: Authentication failed. Please check your API key.">>
      [] error.kind = "status" /\ error.status = 403 ->
           <<"Tugboat API Error: Authorization failed. You do not have permission to perform this action.">>
      [] error.kind = "status" ->
           <<"Tugboat API Error (", ToString(error.status), "): ">>
               \o (IF error.message = <<>> THEN <<"Unknown API error">> ELSE error.message)
      [] error.kind = "noresponse" ->
           <<"Tugboat API Error: No response received from server">>
      [] OTHER -> <<"Tugboat API Error: ">> \o error.message

\* handleApiError: the message of the Error it throws.
handleApiError(error) ==
    CASE error.kind = "status" /\ error.status = 401 ->
           <<"Tugboat API Error: Authentication failed. Please check your API key.">>
      [] error.kind = "status" /\ error.status = 403 ->
           <<"Tugboat API Error: Authorization failed. You do not have permission to perform this action.">>
      [] error.kind = "status" /\ error.status = 404 ->
           <<"Tugboat API Error: Resource not found at ",
             IF error.url = "" THEN "unknown endpoint" ELSE error.url>>
      [] error.kind = "status" ->
           <<"Tugboat API Error (", ToString(error.status), "): ">>
               \o (IF error.message = <<>> THEN <<"Unknown API error">> ELSE error.message)
      [] error.kind = "noresponse" ->
           <<"Tugboat API Error: No response received from server">>
      [] OTHER -> <<"Tugboat API Error: ">> \o error.message

IdleApi ==
    [pc |-> "idle", verb |-> "", endpoint |-> "", requests |-> 0,
     outcome |-> TransportOutcome("", 0, NoBody, <<>>, ""),
     data |-> NoBody, error |-> <<>>]

InitApi == api = IdleApi /\ apiCount = 0

\* A client that sends the request twice.
M_SendRequest(n) == n + 2

\* await this.client.get(endpoint, config): one request goes out.
SendRequest(n) == n + 1

\* get / post / patch / delete is called and awaits the transport.
ApiRequest ==
    /\ api.pc = "idle"
    /\ apiCount < MaxApiCalls
    /\ \E verb \in Verbs, endpoint \in Endpoints :
          api' = [IdleApi EXCEPT !.pc = "sent", !.verb = verb, !.endpoint = endpoint,
                                 !.requests = SendRequest(0)]
    /\ apiCount' = apiCount + 1

\* throw new Error(`Failed to parse JSON response from ${endpoint}: ...`),
\* thrown inside the try of get, so that its catch hands it to handleApiError
\* as an error without response and without request.
ParseFailure(endpoint) ==
    TransportOutcome("setup", 0, NoBody,
                     <<"Failed to parse JSON response from ", endpoint, ": ",
                       SyntaxErrorMessage>>, "")

\* The rest of the method once the transport has settled with r: return
\* response.data, or catch (error) { this.handleApiError(error) }.
Complete(a, r) ==
    LET b == [a EXCEPT !.outcome = r]
        Returned(data) == [b EXCEPT !.pc = "returned", !.data = data]
        Threw(error) == [b EXCEPT !.pc = "threw", !.error = handleApiError(error)]
    IN IF r.kind # "response" THEN Threw(r)
       ELSE IF a.verb = "GET" /\ r.body.type = "string" /\ r.body.text # <<>>
       THEN IF JsonDepth(r.body.text) > 0 THEN Returned(JsonParse(r.body.text))
            ELSE Threw(ParseFailure(a.endpoint))
       ELSE Returned(r.body)

TransportSettle ==
    /\ api.pc = "sent"
    /\ \E r \in TransportOutcomes(api.endpoint) : api' = Complete(api, r)
    /\ UNCHANGED apiCount

\* The caller takes the result.
ApiDone ==
    /\ api.pc \in {"returned", "threw"}
    /\ api' = IdleApi
    /\ UNCHANGED apiCount

NextApi ==
    \/ ApiRequest
    \/ TransportSettle
    \/ ApiDone

\* ------------------------------------------------------------------------
\* AuthManager.isAuthorized
\* ------------------------------------------------------------------------
\* Per caller, the isAuthorized(resource, action) call it is in: waiting for
\* the authenticate() call it made, or settled.
VARIABLES authz

IdleAuthz == [pc |-> "idle", resource |-> "", action |-> "", result |-> "", err |-> ""]

InitAuthz == authz = [p \in Callers |-> IdleAuthz]

\* A manager that grants reading only.
M_Grant(resource, action) == action = "read"

\* `return true`, whatever the resource and the action.
Grant(resource, action) == TRUE

\* isAuthorized up to `await this.authenticate()`.
isAuthorized(p) ==
    /\ authz[p].pc = "idle"
    /\ Authenticate(p)
    /\ \E resource \in {"projects", "preview/<x>"}, action \in {"read", "write", "delete"} :
          authz' = [authz EXCEPT ![p] = [IdleAuthz EXCEPT !.pc = "authenticating",
                                           !.resource = resource, !.action = action]]

\* isAuthorized after the await: the rejection of authenticate() propagates,
\* otherwise the method returns.
isAuthorizedResume(p) ==
    /\ authz[p].pc = "authenticating"
    /\ call[p].pc \in {"resolved", "rejected"}
    /\ authz' = [authz EXCEPT ![p] =
          IF call[p].pc = "rejected"
          THEN [@ EXCEPT !.pc = "rejected", !.err = call[p].err]
          ELSE [@ EXCEPT !.pc = "returned",
                         !.result = IF Grant(authz[p].resource, authz[p].action)
                                   THEN "true" ELSE "false"]]
    /\ UNCHANGED authVars

\* The caller takes the result of its call.
AuthzReturn(p) ==
    /\ authz[p].pc \in {"idle", "returned", "rejected"}
    /\ CallReturn(p)
    /\ authz' = [authz EXCEPT ![p] = IdleAuthz]

\* ------------------------------------------------------------------------
\* searchPreviews: the client-side filter
\* ------------------------------------------------------------------------
\* The filter searchPreviews applies to the list GET /previews returned.
\* Texts are sequences of characters; an absent field is the empty text,
\* which the code's `preview.name && ...` treats alike.
MaxPreviews == 2
MaxTextLen == 2

VARIABLES search

\* The previews the upstream list is made of: the id is always present.
PreviewObjects ==
    [name : {<<>>, <<"A", "b">>, <<"b">>}, id : {<<"a">>, <<"b", "A">>},
     ref : {<<>>, <<"a", "b">>}, url : {<<>>, <<"A">>}, state : {"ready", "failed"}]

\* A comparison that keeps the case of the letters.
M_toLowerCase(s) == s

\* String.prototype.toLowerCase
toLowerCase(s) == [n \in 1..Len(s) |-> IF s[n] = "A" THEN "a" ELSE s[n]]

\* The callback of allPreviews.filter; includes is String.prototype.includes.
PreviewMatches(preview, query, state) ==
    LET queryLower == toLowerCase(query)
        includes(s, q) ==
            \E n \in 0..(Len(s) - Len(q)) : SubSeq(s, n + 1, n + Len(q)) = q
        hit(field) == field # <<>> /\ includes(toLowerCase(field), queryLower)
    IN IF state # "" /\ preview.state # state /\ ~(state = "all") THEN FALSE
       ELSE hit(preview.name) \/ hit(preview.id) \/ hit(preview.ref) \/ hit(preview.url)

IdleSearch == [pc |-> "idle", previews |-> <<>>, query |-> <<>>, state |-> "", matching |-> <<>>]

InitSearch == search = IdleSearch

\* searchPreviews on the direct path, from the response of GET /previews to
\* the list it formats.  The state argument is absent ("") or a value of the
\* schema's enum.
SearchPreviews ==
    /\ search.pc = "idle"
    /\ \E allPreviews \in SeqsUpTo(PreviewObjects, MaxPreviews),
          query \in SeqsUpTo({"a", "A", "b"}, MaxTextLen),
          state \in {"", "all", "ready"} :
          search' = [pc |-> "done", previews |-> allPreviews, query |-> query,
                     state |-> state,
                     matching |-> SelectSeq(allPreviews,
                                     LAMBDA preview : PreviewMatches(preview, query, state))]

SearchDone ==
    /\ search.pc = "done"
    /\ search' = IdleSearch

NextSearch ==
    \/ SearchPreviews
    \/ SearchDone

\* ------------------------------------------------------------------------
\* Wiring of the server (index.ts main, registerTools, registerResources)
\* ------------------------------------------------------------------------
MaxUses == 3

\* caches: the token field of each AuthManager instance; authLog: the
\* authenticate() calls made so far, each with the part of the server that
\* made it, whether it ran the refresh step and the token it returned (Null
\* when the refresh step threw).
VARIABLES caches, authLog

wiringVars == <<caches, authLog>>

\* The AuthManager instance a part of the server calls: main constructs one
\* and hands it to createAuthMiddleware; registerTools and registerResources
\* each construct one of their own for their handlers.
ManagerOf(part) ==
    CASE part = "middleware" -> "main"
      [] part = "tool" -> "registerTools"
      [] part = "resource" -> "registerResources"

InitWiring ==
    /\ caches = [mgr \in {"main", "registerTools", "registerResources"} |-> Null]
    /\ authLog = <<>>

\* A part of the server calls authenticate() on its manager and the call runs
\* to its end: the cached token is returned, or the refresh step runs and its
\* token is cached, or the refresh step throws and nothing is cached.
PartAuthenticates(part) ==
    /\ Len(authLog) < MaxUses
    /\ LET mgr == ManagerOf(part)
           k == Len(authLog) + 1
       IN IF TokenValid(caches[mgr], 0)
          THEN /\ authLog' = Append(authLog, [part |-> part, refreshed |-> FALSE,
                                              token |-> caches[mgr]])
               /\ UNCHANGED caches
          ELSE \E ok \in BOOLEAN :
                  LET t == IF ok THEN refreshToken(k) ELSE Null
                  IN /\ caches' = [caches EXCEPT ![mgr] = t]
                     /\ authLog' = Append(authLog, [part |-> part, refreshed |-> TRUE,
                                                    token |-> t])

NextWiring == \E part \in {"middleware", "tool", "resource"} : PartAuthenticates(part)

\* ------------------------------------------------------------------------
\* Statistics tools (tools/index.ts): the rendering of one data point
\* ------------------------------------------------------------------------
\* stat: the data point rendered last, with the tool, the item asked for, the
\* numeric value and the words of the "Value:" line.
VARIABLES stat

\* while (size >= 1024 && unitIndex < units.length - 1) { size /= 1024;
\* unitIndex++; }: the unit index the loop ends with, from unitIndex, where
\* divisor = 1024^unitIndex and size = bytes / divisor.
RECURSIVE UnitIndex(_, _, _)
UnitIndex(bytes, divisor, unitIndex) ==
    IF bytes >= 1024 * divisor /\ unitIndex < 4
    THEN UnitIndex(bytes, divisor * 1024, unitIndex + 1)
    ELSE unitIndex

\* formatSize(bytes) for a number: `${size.toFixed(2)} ${units[unitIndex]}`.
\* toFixed(2) rounds the exact quotient to hundredths, halves upwards.
formatSize(bytes) ==
    LET units == <<"B", "KB", "MB", "GB", "TB">>
        unitIndex == UnitIndex(bytes, 1, 0)
        divisor == 1024 ^ unitIndex
        hundredths == (200 * bytes + divisor) \div (2 * divisor)
    IN <<ToString(hundredths \div 100), ".", ToString((hundredths % 100) \div 10),
         ToString(hundredths % 10), units[unitIndex + 1]>>

\* item: z.enum([...]) of each statistics tool.
StatItems(tool) ==
    CASE tool = "getPreviewStatistics" -> {"build-time", "refresh-time", "size", "services"}
      [] tool = "getProjectStats" ->
            {"build-time", "refresh-time", "size", "repos", "previews", "services"}
      [] tool = "getRepositoryStats" ->
            {"build-time", "refresh-time", "size", "previews", "services"}

\* The words after "Value:" in the line a tool writes for one data point.
\* getPreviewStatistics formats by item; getProjectStats and
\* getRepositoryStats write `Value: ${stat.value}` for every item.
RenderValue(tool, item, value) ==
    IF tool = "getPreviewStatistics"
    THEN IF item = "size" THEN formatSize(value)
         ELSE IF item \in {"build-time", "refresh-time"} THEN <<ToString(value), "seconds">>
         ELSE <<ToString(value)>>
    ELSE <<ToString(value)>>

InitStats == stat = [tool |-> "", item |-> "", value |-> 0, text |-> <<>>]

\* A statistics tool renders one data point of the upstream response.
RenderStat ==
    \E tool \in {"getPreviewStatistics", "getProjectStats", "getRepositoryStats"} :
       \E item \in StatItems(tool) :
          \E value \in {0, 1, 512, 1023, 1024, 1536, 1048575, 1048576, 5000000} :
             stat' = [tool |-> tool, item |-> item, value |-> value,
                      text |-> RenderValue(tool, item, value)]

\* ------------------------------------------------------------------------
\* Specifications
\* ------------------------------------------------------------------------
vars == <<authVars, mwVars, toolVars, apiVars, authz, search, wiringVars, stat>>

Init ==
    /\ InitAuth /\ InitMw /\ InitTool /\ InitApi /\ InitAuthz /\ InitSearch
    /\ InitWiring /\ InitStats

NextAuth ==
    \/ \E p \in Callers : Authenticate(p)
    \/ \E k \in 1..MaxCalls : RefreshSettle(k)
    \/ \E p \in Callers : AwaitResume(p)
    \/ \E p \in Callers : JoinSettle(p)
    \/ \E p \in Callers : CallReturn(p)
    \/ Tick

Next == NextAuth /\ UNCHANGED <<mwVars, toolVars, apiVars, authz, search, wiringVars, stat>>

\* The AuthManager under concurrent callers.
Spec == Init /\ [][Next]_vars

\* The middleware serving requests.
SpecMw == Init /\ [][NextMw /\ UNCHANGED <<authVars, toolVars, apiVars, authz, search, wiringVars, stat>>]_vars

\* The tool and resource handlers serving invocations.
SpecTool == Init /\ [][NextTool /\ UNCHANGED <<authVars, mwVars, apiVars, authz, search, wiringVars, stat>>]_vars

\* The API client serving calls.
SpecApi == Init /\ [][NextApi /\ UNCHANGED <<authVars, mwVars, toolVars, authz, search, wiringVars, stat>>]_vars

NextAuthz ==
    \/ isAuthorized(1)
    \/ \E p \in Callers : isAuthorizedResume(p)
    \/ \E p \in Callers : authz[p].pc = "idle" /\ Authenticate(p) /\ UNCHANGED authz
    \/ \E k \in 1..MaxCalls : RefreshSettle(k) /\ UNCHANGED authz
    \/ \E p \in Callers : AwaitResume(p) /\ UNCHANGED authz
    \/ \E p \in Callers : JoinSettle(p) /\ UNCHANGED authz
    \/ \E p \in Callers : AuthzReturn(p)
    \/ Tick /\ UNCHANGED authz

\* The AuthManager under callers of authenticate(), the first of which also
\* calls isAuthorized().
SpecAuthz == Init /\ [][NextAuthz /\ UNCHANGED <<mwVars, toolVars, apiVars, search, wiringVars, stat>>]_vars

\* The searchPreviews filter over upstream lists.
SpecSearch ==
    Init /\ [][NextSearch /\ UNCHANGED <<authVars, mwVars, toolVars, apiVars, authz, wiringVars, stat>>]_vars

\* The parts of the server calling authenticate(), each on its manager.
SpecWiring ==
    Init /\ [][NextWiring /\ UNCHANGED <<authVars, mwVars, toolVars, apiVars, authz, search, stat>>]_vars

\* The statistics tools rendering data points.
SpecStats ==
    Init /\ [][RenderStat /\ UNCHANGED <<authVars, mwVars, toolVars, apiVars, authz, search,
                                         wiringVars>>]_vars

\* ------------------------------------------------------------------------
\* Properties of the AuthManager
\* ------------------------------------------------------------------------

\* Refresh k has settled and the authenticate() call that started it has run
\* its continuation (assignment, finally, catch).
Finished(k) ==
    /\ promises[k].state \in {"fulfilled", "rejected"}
    /\ ~\E p \in Callers : call[p].pc = "awaiting" /\ call[p].waitsOn = k

\* Caller p enters authenticate() in this step.
Issued(p) == call[p].pc = "idle" /\ call'[p].pc # "idle"

\* C1: authenticate() calls issued while a refresh is in flight start no
\* refresh of their own, and every call that depends on one refresh - the
\* call that started it and the calls that joined it - resolves to the
\* identical token object, the one that refresh produced.
C1_SingleFlight ==
    /\ \A p \in Callers :
          call[p].issuedDuring # 0 =>
              /\ call[p].started = 0
              /\ call[p].waitsOn = call[p].issuedDuring
    /\ \A p \in Callers :
          (call[p].pc = "resolved" /\ call[p].waitsOn # 0) =>
              call[p].result = promises[call[p].waitsOn].value
    /\ \A p, q \in Callers :
          (/\ call[p].pc = "resolved" /\ call[q].pc = "resolved"
           /\ call[p].waitsOn # 0 /\ call[p].waitsOn = call[q].waitsOn) =>
              call[p].result = call[q].result
    /\ \A p, q \in Callers :
          (call[p].started # 0 /\ call[p].started = call[q].started) => p = q

\* C1 witness: three calls shared one refresh, two of them joined it while it
\* was in flight, and all have resolved to its token.
C1_Witness ==
    \E p, q, r \in Callers :
        /\ p # q /\ q # r /\ p # r
        /\ call[p].pc = "resolved" /\ call[q].pc = "resolved" /\ call[r].pc = "resolved"
        /\ call[p].started # 0
        /\ call[q].issuedDuring = call[p].started
        /\ call[r].issuedDuring = call[p].started
        /\ call[q].result = call[p].result /\ call[r].result = call[p].result
        /\ call[p].result # Null
        /\ refreshCount = 1

\* C2: every authenticate() call that rejects - the call that started the
\* failed refresh and the calls that joined it - rejects with the generic
\* error "Authentication failed".
C2_GenericError ==
    \A p \in Callers :
        call[p].pc = "rejected" => call[p].err = AuthenticationFailed

WellFormedBearer(h) ==
    /\ Len(h) >= 3
    /\ h[1] \in {"Bearer", "bearer"}
    /\ h[2] = " "
    /\ \E i \in 3..Len(h) : h[i] # " "

\* The value of a well-formed header: what follows the scheme and the
\* whitespace after it.
BearerValue(h) ==
    LET first == CHOOSE i \in 3..Len(h) :
                     h[i] # " " /\ \A j \in 2..(i - 1) : h[j] = " "
    IN SubSeq(h, first, Len(h))

\* The request was answered with status code and nothing else happened.
RejectedWith(code) ==
    mw.status = code /\ mw.responses = 1 /\ mw.nextCalls = 0

\* C4: a request with no Authorization header, with a header that is not of
\* the form Bearer <token>, or with a bearer value other than the manager's
\* current token is answered 401; one with the right token, a resource
\* parameter and isAuthorized resolving false is answered 403; in none of
\* these cases is next() called.
C4_Rejections ==
    /\ mw.pc # "done" => (mw.responses = 0 /\ mw.nextCalls = 0)
    /\ mw.pc = "done" =>
          /\ mw.header = <<>> => RejectedWith(401)
          /\ ~WellFormedBearer(mw.header) => RejectedWith(401)
          /\ (/\ WellFormedBearer(mw.header)
              /\ mw.validToken # <<>>
              /\ BearerValue(mw.header) # mw.validToken) => RejectedWith(401)
          /\ (/\ WellFormedBearer(mw.header)
              /\ BearerValue(mw.header) = mw.validToken
              /\ mw.resource # ""
              /\ mw.authz = "denied") => RejectedWith(403)

\* C4 witness: a request with the right token and a resource parameter was
\* denied by isAuthorized and answered 403.
C4_Witness ==
    /\ mw.pc = "done"
    /\ WellFormedBearer(mw.header)
    /\ BearerValue(mw.header) = mw.validToken
    /\ mw.resource # ""
    /\ mw.authz = "denied"
    /\ mw.status = 403
    /\ mw.nextCalls = 0

\* C5: when the bearer value equals the manager's current token and either
\* there is no resource parameter or isAuthorized grants, the middleware
\* calls next() once and sends no response.
C5_PassThrough ==
    (/\ mw.pc = "done"
     /\ WellFormedBearer(mw.header)
     /\ BearerValue(mw.header) = mw.validToken
     /\ (mw.resource = "" \/ mw.authz = "granted")) =>
        (mw.nextCalls = 1 /\ mw.responses = 0 /\ mw.status = 0)

\* C5 witness: a request with a resource parameter was granted and passed on.
C5_Witness ==
    /\ mw.pc = "done"
    /\ WellFormedBearer(mw.header)
    /\ BearerValue(mw.header) = mw.validToken
    /\ mw.resource # ""
    /\ mw.authz = "granted"
    /\ mw.nextCalls = 1
    /\ mw.responses = 0

\* ------------------------------------------------------------------------
\* Properties of the tool and resource handlers
\* ------------------------------------------------------------------------
\* The text the invocation settled with contains the word w.
Says(w) == \E n \in 1..Len(inv.text) : inv.text[n] = w

\* An API-client call with this HTTP verb was made during the invocation.
ApiCalled(verb) == \E n \in 1..Len(inv.calls) : inv.calls[n].verb = verb

\* C6: for every tool that performs an authorization check, if isAuthorized
\* resolves false then no API-client method is invoked during that
\* invocation, and the tool returns a text block containing "permission" or
\* "authorized".
C6_DenialShortCircuits ==
    (inv.handler.kind = "tool" /\ inv.denied) =>
        /\ inv.calls = <<>>
        /\ inv.phase = "resolved" => (Says("permission") \/ Says("authorized"))

\* C7 as stated: every tool handler resolves with a content list of text
\* blocks on every path; any error thrown by the API client, by the
\* authorization check or by a pre-check is caught inside the handler and
\* reported as an error text block, so the handler's promise never rejects.
C7_EveryErrorReported ==
    inv.handler.kind = "tool" =>
        /\ inv.phase # "rejected"
        /\ (inv.phase = "resolved" /\ inv.threw # "") => inv.kind = "error"

\* C7, amended: a tool handler's promise never rejects; an error thrown by
\* the API client, by the authorization check or by a pre-check is caught
\* inside the handler and reported as an error text block, unless it is
\* thrown inside a nested try whose catch goes on with a fallback request or
\* with the next item, in which case it is logged and the handler carries on.
C7_ToolsNeverReject ==
    inv.handler.kind = "tool" =>
        /\ inv.phase # "rejected"
        /\ (inv.phase = "resolved" /\ inv.caughtBy \in {"outer", "inner"}) =>
              (inv.kind = "error" /\ Says("Error"))

\* An API-client error reached a tool's own catch block.
C7_Witness ==
    /\ inv.handler.kind = "tool"
    /\ inv.phase = "resolved"
    /\ inv.threw = "api"
    /\ inv.caughtBy = "outer"
    /\ inv.kind = "error"

\* C8: every resource handler catches authorization denial and upstream
\* errors at its own boundary and resolves with a contents payload
\* describing the error; it never throws to the protocol layer.
C8_ResourcesNeverThrow ==
    inv.handler.kind = "resource" =>
        /\ inv.phase # "rejected"
        /\ (inv.phase = "resolved" /\ inv.threw # "" /\ inv.caughtBy = "outer") =>
              inv.kind = "error"

\* The tool has an if (!confirm) gate.
ConfirmGated(h) == \E k \in 1..Len(h.steps) : h.steps[k].op = "confirm"

\* C9 as stated: a confirm-gated delete tool invoked without confirm: true
\* never issues the upstream DELETE request and returns the cancellation
\* message.
C9_AlwaysCancelled ==
    (ConfirmGated(inv.handler) /\ ~inv.confirm) =>
        /\ ~ApiCalled("DELETE")
        /\ inv.phase = "resolved" => (inv.kind = "cancelled" /\ Says("cancelled"))

\* C9, amended: a confirm-gated delete tool invoked without confirm: true
\* never issues the upstream DELETE request, and returns the cancellation
\* message when the authorization check, which comes first, grants.
C9_UnconfirmedDelete ==
    (ConfirmGated(inv.handler) /\ ~inv.confirm) =>
        /\ ~ApiCalled("DELETE")
        /\ (inv.phase = "resolved" /\ inv.granted) =>
              (inv.kind = "cancelled" /\ Says("cancelled"))

\* An authorized deleteProject or deleteRepository without confirm was
\* cancelled.
C9_Witness ==
    /\ ConfirmGated(inv.handler)
    /\ ~inv.confirm
    /\ inv.granted
    /\ inv.phase = "resolved"
    /\ inv.kind = "cancelled"
    /\ inv.calls = <<>>

UpdateTools == {"updatePreview", "updateProject", "updateRepository"}

\* C10: for each update tool, an invocation that supplies none of the
\* optional fields returns an explicit "no fields / at least one field"
\* error and issues no upstream PATCH request.  (An invocation that is
\* denied authorization, or whose authorization check throws, is left out.)
C10_NoFieldsNoPatch ==
    (inv.handler.name \in UpdateTools /\ ~inv.fields) =>
        /\ ~ApiCalled("PATCH")
        /\ (inv.phase = "resolved" /\ ~inv.denied /\ inv.threw = "") =>
              inv.kind = "nofields"

\* ------------------------------------------------------------------------
\* Properties of the API client
\* ------------------------------------------------------------------------
\* C11: each failed API-client call raises exactly one error chosen by
\* failure kind: HTTP 401 gives the authentication-failed message, 403 the
\* authorization-failed message, 404 exactly "Tugboat API Error: Resource not
\* found at <config.url>", any other non-2xx status "Tugboat API Error
\* (<status>): <message>" (with "Unknown API error" when the response carries
\* no message), no response received the no-response message, and a
\* request-construction failure "Tugboat API Error: <message>".
C11_FailureMapping ==
    LET o == api.outcome
    IN /\ (api.pc = "returned") => (o.kind = "response" /\ api.error = <<>>)
       /\ (api.pc = "threw" /\ o.kind # "response") =>
            /\ (o.kind = "status" /\ o.status = 401) => api.error =
                  <<"Tugboat API Error: Authentication failed. Please check your API key.">>
            /\ (o.kind = "status" /\ o.status = 403) => api.error =
                  <<"Tugboat API Error: Authorization failed. You do not have permission to perform this action.">>
            /\ (o.kind = "status" /\ o.status = 404 /\ o.url # "") => api.error =
                  <<"Tugboat API Error: Resource not found at ", o.url>>
            /\ (o.kind = "status" /\ o.status \notin {401, 403, 404}) => api.error =
                  <<"Tugboat API Error (", ToString(o.status), "): ">>
                      \o (IF o.message = <<>> THEN <<"Unknown API error">> ELSE o.message)
            /\ (o.kind = "noresponse") => api.error =
                  <<"Tugboat API Error: No response received from server">>
            /\ (o.kind = "setup") => api.error = <<"Tugboat API Error: ">> \o o.message

\* An upstream 404 for /previews/nonexistent was reported verbatim.
C11_Witness ==
    /\ api.pc = "threw"
    /\ api.outcome.kind = "status"
    /\ api.outcome.status = 404
    /\ api.error = <<"Tugboat API Error: Resource not found at ", "/previews/nonexistent">>

\* ------------------------------------------------------------------------
\* Properties of the token cache and of isAuthorized
\* ------------------------------------------------------------------------
\* C12: when a token is cached and not expired, authenticate() returns that
\* same cached token without running the refresh step.
C12_CachedTokenReused ==
    [][\A p \in Callers :
         (/\ call[p].pc = "idle"
          /\ call'[p].pc # "idle"
          /\ token # Null
          /\ (token.expires = 0 \/ token.expires > now))
         => (/\ call'[p].pc = "resolved"
             /\ call'[p].result = token
             /\ refreshCount' = refreshCount
             /\ promises' = promises)]_vars

\* A call found the cached token and returned it without waiting.
C12_Witness ==
    \E p \in Callers :
       /\ call[p].pc = "resolved"
       /\ call[p].waitsOn = 0
       /\ call[p].result = token
       /\ token # Null

\* C13: the cached token's value is always the raw API key and its expires
\* field is always unset; once a token has been cached it is never replaced,
\* cleared or expired.
C13_TokenNeverChanges ==
    /\ [](token # Null =>
            (token.token = ApiKey /\ token.expires = 0 /\ TokenValid(token, now)))
    /\ [][token # Null => token' = token]_vars

\* The token is cached, time has passed and every call was made.
C13_Witness ==
    /\ token # Null
    /\ now = MaxNow
    /\ nCalls = MaxCalls
    /\ refreshCount > 0

\* C14: isAuthorized(resource, action) first calls authenticate() and then
\* returns true for every resource and every action (read, write, delete);
\* it never returns false.
C14_AlwaysGrants ==
    \A p \in Callers :
       /\ authz[p].pc = "authenticating" => call[p].pc # "idle"
       /\ authz[p].pc = "returned" => (authz[p].result = "true" /\ call[p].pc = "resolved")
       /\ authz[p].pc = "rejected" => call[p].pc = "rejected"
       /\ authz[p].result # "false"

\* isAuthorized returned true for a delete.
C14_Witness ==
    \E p \in Callers :
       /\ authz[p].pc = "returned"
       /\ authz[p].action = "delete"
       /\ authz[p].result = "true"

\* ------------------------------------------------------------------------
\* Properties of the searchPreviews filter
\* ------------------------------------------------------------------------
\* Two letters are the same up to case.
SameLetter(c, d) == c = d \/ {c, d} = {"a", "A"}

\* The text contains the query as a case-insensitive substring.
ContainsIgnoringCase(s, q) ==
    \E n \in 0..(Len(s) - Len(q)) : \A j \in 1..Len(q) : SameLetter(s[n + j], q[j])

QueryFound(preview, q) ==
    \/ ContainsIgnoringCase(preview.name, q)
    \/ ContainsIgnoringCase(preview.id, q)
    \/ ContainsIgnoringCase(preview.ref, q)
    \/ ContainsIgnoringCase(preview.url, q)

Aggregates(h) == \E k \in 1..Len(h.steps) : h.steps[k].op = "apiEach"

C17_NoLogsMessage ==
    inv.handler.name = "getPreviewLogs" /\ inv.phase = "resolved" =>
        /\ inv.blocks >= 1
        /\ (inv.kind = "logs" /\ inv.total = 0) =>
              /\ inv.blocks = 1
              /\ inv.text = <<"No", "logs", "available", "for", "this", "preview">>

\* C18: each call to the API client's get, post, patch or delete issues
\* exactly one HTTP request, whether it succeeds or fails; a failed request
\* is never retried.
C18_FireOnce ==
    /\ api.pc = "idle" => api.requests = 0
    /\ api.pc \in {"sent", "returned", "threw"} => api.requests = 1

\* A call failed for want of a response after its one request.
C18_Witness ==
    /\ api.pc = "threw"
    /\ api.outcome.kind = "noresponse"
    /\ api.requests = 1

\* C19: for each of GET, POST, PATCH and DELETE, when the transport returns
\* a string body that is not valid JSON, the API client raises a
\* parse-failure error that is distinguishable from the errors it raises for
\* HTTP-status failures, for no response and for request-construction
\* failure.
C19_ParseFailureRaised ==
    (/\ api.pc \in {"returned", "threw"}
     /\ api.outcome.kind = "response"
     /\ api.outcome.body.type = "string"
     /\ api.outcome.body.text # <<>>
     /\ JsonDepth(api.outcome.body.text) = 0)
    => LET others == {r \in TransportOutcomes(api.endpoint) : r.kind # "response"}
       IN /\ api.pc = "threw"
          /\ \A r \in others : api.error # handleApiError(r)

\* C20: for every tool that takes a Tugboat identifier (24 characters), an
\* input identifier whose length is not exactly 24 is rejected by schema
\* validation and no upstream request is made.
C20_BadIdRejected ==
    (/\ inv.phase # "idle"
     /\ inv.handler.kind = "tool"
     /\ inv.idLen # 0
     /\ inv.idLen # IdLength)
    => (inv.phase = "invalid" /\ inv.calls = <<>>)

\* C21: the middleware derives the action from the HTTP method (the method
\* name read without regard to case) - GET gives read; POST, PUT and PATCH
\* give write; DELETE gives delete; any other method gives read - and
\* passes exactly that action to isAuthorized.
C21_ActionFromMethod ==
    mw.authzAction # "" =>
        /\ mw.resource # ""
        /\ mw.authzResource = mw.resource
        /\ mw.method = "GET" => mw.authzAction = "read"
        /\ mw.method \in {"POST", "PUT", "PATCH"} => mw.authzAction = "write"
        /\ mw.method \in {"DELETE", "delete"} => mw.authzAction = "delete"
        /\ mw.method \notin {"GET", "POST", "PUT", "PATCH", "DELETE", "delete"} =>
              mw.authzAction = "read"

\* A PUT request reached isAuthorized with the action write.
C21_Witness ==
    /\ mw.pc = "authorizing"
    /\ mw.method = "PUT"
    /\ mw.authzAction = "write"

\* C22: searchProjects and searchRepositories return only entries whose
\* project passed isAuthorized(project/<id>, read); an entry whose project
\* was denied never appears in the result.
C22_OnlyAuthorizedEntries ==
    inv.handler.name \in {"searchProjects", "searchRepositories"} =>
        /\ inv.shown \subseteq inv.passed
        /\ inv.shown \cap inv.refused = {}

\* C23: in any tool that both creates and then fetches an entity
\* (createPreview followed by getPreview), the id returned by the create call
\* is the id passed to the subsequent fetch.
C23_FetchesCreatedId ==
    \A n \in 2..Len(inv.calls) :
        (/\ inv.handler.name \in {"createPreview", "createProject", "createRepository"}
         /\ inv.calls[n - 1].verb = "POST"
         /\ inv.calls[n].verb = "GET")
        => (inv.created # "" /\ inv.fetched = inv.created)

\* createPreview fetched the preview it had just created.
C23_Witness ==
    /\ inv.handler.name = "createPreview"
    /\ inv.phase = "resolved"
    /\ inv.kind = "success"
    /\ inv.created = "p2"
    /\ inv.fetched = "p2"
    /\ Len(inv.calls) = 2

\* The upstream requests of the invocation that are in flight.
InFlight == Len(inv.calls) - inv.settled

\* C24: within a single tool or resource invocation, upstream HTTP requests
\* are issued strictly one after another: at most one upstream request of
\* that invocation is in flight at any time, including during the
\* per-project fallback aggregation.
C24_OneRequestInFlight ==
    /\ InFlight \in {0, 1}
    /\ InFlight = 1 <=>
          (inv.phase = "await" /\ inv.handler.steps[inv.pc].op \in {"api", "apiEach"})

\* The fallback aggregation waits for its second per-project request, the
\* first one settled.
C24_Witness ==
    /\ inv.phase = "await"
    /\ inv.handler.steps[inv.pc].op = "apiEach"
    /\ inv.total = 2
    /\ inv.items = 1
    /\ InFlight = 1

\* C25: tool invocations, resource invocations and the HTTP middleware all
\* use one shared authentication-token cache: once any of them has cached a
\* token, that same token is returned to the others and none of them runs
\* the refresh step again.
C25_SharedCache ==
    \A a, b \in 1..Len(authLog) :
        (a < b /\ authLog[a].token # Null) =>
            /\ ~authLog[b].refreshed
            /\ authLog[b].token.token = authLog[a].token.token

\* C26: for every list-returning tool, an upstream response that is not an
\* array where an array is expected makes the tool report an "unexpected
\* response format" error.
C26_FormatErrorReported ==
    (inv.handler.kind = "tool" /\ inv.malformed /\ inv.phase \in {"resolved", "rejected"})
    => (/\ inv.phase = "resolved"
        /\ inv.kind \in {"error", "failed"}
        /\ Says("Unexpected") \/ Says("unexpected")
        /\ Says("response")
        /\ Says("format"))

\* C27: every statistics tool (getPreviewStatistics, getProjectStats,
\* getRepositoryStats) renders each numeric size value through the byte
\* formatter (units B/KB/MB/GB/TB, base 1024, two decimal places) and
\* renders each time-like item's value with a "seconds" suffix.
C27_StatsFormatted ==
    stat.tool # "" =>
        /\ stat.item = "size" => stat.text = formatSize(stat.value)
        /\ stat.item \in {"build-time", "refresh-time"} =>
              stat.text = <<ToString(stat.value), "seconds">>

\* The refreshes in flight: the promises of refreshToken() not yet settled.
RefreshesInFlight == {k \in 1..MaxCalls : promises[k].state = "pending"}

\* C28: on one AuthManager at most one refresh is in flight at any time,
\* under every interleaving of authenticate() calls, including calls that
\* arrive just as a refresh completes and calls made after a failed refresh.
C28_OneRefreshInFlight ==
    /\ Cardinality(RefreshesInFlight) <= 1
    /\ \A k \in RefreshesInFlight : tokenRefreshPromise = k

\* A second refresh is in flight after the first one failed, and a call that
\* arrived meanwhile waits on it.
C28_Witness ==
    /\ promises[1].state = "rejected"
    /\ promises[2].state = "pending"
    /\ \E p \in Callers : call[p].pc = "joined" /\ call[p].waitsOn = 2

\* C29: for every request the middleware produces exactly one outcome:
\* either it sends exactly one response (401, 403 or 500) or it calls the
\* next handler exactly once - never both and never neither - including
\* when authenticate() or isAuthorized throws, in which case the outcome is
\* the 500 response.
C29_ExactlyOneOutcome ==
    /\ mw.pc # "done" => (mw.responses = 0 /\ mw.nextCalls = 0)
    /\ mw.pc = "done" =>
          /\ mw.responses + mw.nextCalls = 1
          /\ mw.responses = 1 <=> mw.status \in {401, 403, 500}
          /\ mw.nextCalls = 1 <=> mw.status = 0
          /\ mw.authz = "threw" => mw.status = 500
          /\ (HeaderVerdict(mw.header) = "bearer" /\ mw.validToken = <<>>) =>
                mw.status = 500

\* isAuthorized threw and the request was answered with the 500 response.
C29_Witness ==
    /\ mw.pc = "done"
    /\ mw.authz = "threw"
    /\ mw.status = 500
    /\ mw.responses = 1
    /\ mw.nextCalls = 0

\* C30: in deleteProject and deleteRepository the authorization check
\* precedes the confirm check: an invocation that is denied authorization
\* returns the permission error, not the cancellation message, whatever the
\* value of confirm; the cancellation message goes only to an invocation
\* that was granted authorization.
C30_AuthorizationBeforeConfirm ==
    (ConfirmGated(inv.handler) /\ inv.handler.name \in {"deleteProject", "deleteRepository"}) =>
        /\ (inv.phase = "resolved" /\ inv.denied) =>
              /\ inv.kind = "denied"
              /\ Says("permission")
              /\ ~Says("cancelled")
              /\ inv.calls = <<>>
        /\ (inv.phase = "resolved" /\ inv.kind = "cancelled") =>
              (inv.granted /\ ~inv.denied)

\* A denied deleteRepository without confirm returned the permission error.
C30_Witness ==
    /\ inv.handler.name = "deleteRepository"
    /\ ConfirmGated(inv.handler)
    /\ ~inv.confirm
    /\ inv.denied
    /\ inv.phase = "resolved"
    /\ inv.kind = "denied"

====
